---- MODULE Spec2Model ----
(***************************************************************************)
(* A model of the ironfish PeerManager                                     *)
(* (ironfish/src/network/peers/peerManager.ts).                            *)
(*                                                                         *)
(* The manager owns a flat list of peer records, a map from identity to    *)
(* peer record, and, through the peer records, the transport connections.  *)
(* Every public operation and every transport callback runs to completion  *)
(* on one event loop, so each is one action of the model.  The handlers    *)
(* are written as operators from a manager state S (a record of all the    *)
(* fields) to the manager state after the call, so that the synchronous    *)
(* chains connection.setState -> peer.onStateChanged -> manager handler    *)
(* are part of the action that starts them.                                *)
(***************************************************************************)
EXTENDS Integers, Sequences, FiniteSets, TLC

\* ------------------------------------------------------------------ bounds
\* Peer records and connections alive at a time, clock ticks.
MaxPeerRecords == 3
MaxConnections == 3
\* Connections alive at a time where two are enough.
DialConnections == 2
\* Peers in the list where two are enough.
DialPeers == 2
MaxTime == 1
\* Ceiling of the retry back-off, in clock ticks.
BackoffCeiling == 1

\* The number of intervals setInterval hands out.
MaxIntervals == 4

\* ------------------------------------------------------- program constants
\* The constructor's maxPeers and targetPeers (scaled down from 10000 / 50).
maxPeers == 2
targetPeers == 2
\* this.localPeer.publicIdentity; identities are ordered, 1 < 2 < 3.
localIdentity == 2
NumIdentities == 3

\* null, for identities, peers, connections and addresses
Null == 0
\* null, for timestamps
NoTime == 0 - 1
\* a string that fails isIdentity
BadIdentity == 0 - 2

Identities == 1..NumIdentities
PeerIds == 1..MaxPeerRecords
ConnIds == 1..MaxConnections
Times == 0..MaxTime
\* the one websocket address the model dials
Address == 1

WebSocket == "WebSocket"
WebRtc == "WebRtc"
Inbound == "Inbound"
Outbound == "Outbound"
RetryKeys ==
  {<<WebSocket, Outbound>>, <<WebSocket, Inbound>>, <<WebRtc, Outbound>>, <<WebRtc, Inbound>>}

\* ---------------------------------------------------------------- identity
\* identity.ts
isIdentity(i) == i \in Identities
canInitiateWebRTC(source, dest) == source < dest
canKeepDuplicateConnection(source, dest) == source < dest

\* ------------------------------------------------------------ fresh records
NewPeer(identity) ==
  [ identity |-> identity,
    state |-> "DISCONNECTED",
    ws |-> Null,
    rtc |-> Null,
    address |-> Null,
    isWhitelisted |-> FALSE,
    isWorker |-> FALSE,
    localRequestedDisconnectUntil |-> NoTime,
    localRequestedDisconnectReason |-> "none",
    peerRequestedDisconnectUntil |-> NoTime,
    peerRequestedDisconnectReason |-> "none",
    knownPeers |-> [i \in Identities |-> Null],
    neverRetry |-> {},
    failures |-> [k \in RetryKeys |-> 0],
    cooldownUntil |-> [k \in RetryKeys |-> 0],
    identifyHandler |-> (identity = Null),
    disposed |-> FALSE ]

NoConnection ==
  [ type |-> "none", direction |-> "none", state |-> "DISCONNECTED",
    identity |-> Null, initiator |-> FALSE, broker |-> Null, fed |-> FALSE ]

NewConnection(type, direction, state, initiator, broker) ==
  [ type |-> type, direction |-> direction, state |-> state,
    identity |-> Null, initiator |-> initiator, broker |-> broker, fed |-> FALSE ]

\* ------------------------------------------------------------- small helpers
Min(a, b) == IF a < b THEN a ELSE b

Emit(S, e) == [S EXCEPT !.emitted = Append(@, e)]

\* ------------------------------------------------------------ ConnectionRetry
neverRetryConnecting(S, p, key) ==
  [S EXCEPT !.peer[p].neverRetry = @ \cup {key}]

\* Whitelisted: no cooldown and no count; otherwise a back-off that grows
\* with the consecutive failures up to the ceiling.
failedConnection(S, p, key) ==
  IF S.peer[p].isWhitelisted
    THEN [S EXCEPT !.peer[p].cooldownUntil[key] = S.now]
    ELSE LET n == Min(S.peer[p].failures[key] + 1, BackoffCeiling)
         IN  [S EXCEPT !.peer[p].failures[key] = n,
                       !.peer[p].cooldownUntil[key] = S.now + n]

successfulConnection(S, p, key) ==
  [S EXCEPT !.peer[p].failures[key] = 0, !.peer[p].cooldownUntil[key] = 0]

canConnect(S, p, key) ==
  /\ key \notin S.peer[p].neverRetry
  /\ S.now >= S.peer[p].cooldownUntil[key]

willNeverRetryConnecting(S, p, key) == key \in S.peer[p].neverRetry

\* ----------------------------------------------------------------- Connection
\* The transition table of Connection.setState.
ValidTransition(from, to) ==
  \/ from = "CONNECTING" /\ to \in {"WAITING_FOR_IDENTITY", "SIGNALING",
                                    "REQUEST_SIGNALING", "DISCONNECTED"}
  \/ from = "REQUEST_SIGNALING" /\ to \in {"SIGNALING", "DISCONNECTED"}
  \/ from = "SIGNALING" /\ to \in {"WAITING_FOR_IDENTITY", "DISCONNECTED"}
  \/ from = "WAITING_FOR_IDENTITY" /\ to \in {"CONNECTED", "DISCONNECTED"}
  \/ from = "CONNECTED" /\ to = "DISCONNECTED"

\* Connection.send: admitted iff the connection can transmit.
ConnSend(S, c, m) ==
  IF S.conn[c].state \in {"WAITING_FOR_IDENTITY", "CONNECTED"}
    THEN [S EXCEPT !.sent = Append(@, [conn |-> c, msg |-> m])]
    ELSE S

\* The peer records whose slot holds connection c.
Holders(S, c) == {p \in PeerIds : S.peer[p].ws = c \/ S.peer[p].rtc = c}

\* The peer state computed from the connections in the two slots.
PeerStateOf(S, ws, rtc) ==
  IF ws = Null /\ rtc = Null THEN "DISCONNECTED"
  ELSE IF \/ (ws # Null /\ S.conn[ws].state = "CONNECTED")
          \/ (rtc # Null /\ S.conn[rtc].state = "CONNECTED")
       THEN "CONNECTED"
       ELSE "CONNECTING"

\* The identity a peer takes from its CONNECTED connection.
ConnectedIdentity(S, ws, rtc) ==
  IF rtc # Null /\ S.conn[rtc].state = "CONNECTED" THEN S.conn[rtc].identity
  ELSE S.conn[ws].identity

\* Connection and peer state changes run their listeners synchronously, and
\* the listeners change connections and peers in turn.
RECURSIVE SetPeerConnections(_, _, _, _)
RECURSIVE OnPeerStateChanged(_, _, _)
RECURSIVE updateIdentifiedPeerMap(_, _)
RECURSIVE ConnSetState(_, _, _, _)
RECURSIVE ConnClose(_, _)
RECURSIVE removeConnection(_, _, _)
RECURSIVE setWebSocketConnection(_, _, _)
RECURSIVE setWebRtcConnection(_, _, _)
RECURSIVE PeerClose(_, _)

\* Connection.close: idempotent.
ConnClose(S, c) ==
  IF S.conn[c].state = "DISCONNECTED" THEN S
  ELSE ConnSetState(S, c, "DISCONNECTED", Null)

\* Closing a connection no peer listens to any more.
ConnCloseDetached(S, c) ==
  [S EXCEPT !.conn[c].state = "DISCONNECTED", !.conn[c].identity = Null]

\* Peer.removeConnection
removeConnection(S, p, c) ==
  IF S.peer[p].state = "DISCONNECTED" THEN S
  ELSE SetPeerConnections(S, p,
         IF S.peer[p].ws = c THEN Null ELSE S.peer[p].ws,
         IF S.peer[p].rtc = c THEN Null ELSE S.peer[p].rtc)

\* The connection a slot held is closed when another one takes the slot.
CloseDisplaced(S, old, c) ==
  IF old # Null /\ old # c THEN ConnCloseDetached(S, old) ELSE S

\* Peer.setWebSocketConnection: closes what the slot held, installs c.
setWebSocketConnection(S, p, c) ==
  SetPeerConnections(CloseDisplaced(S, S.peer[p].ws, c), p, c, S.peer[p].rtc)

\* Peer.setWebRtcConnection
setWebRtcConnection(S, p, c) ==
  SetPeerConnections(CloseDisplaced(S, S.peer[p].rtc, c), p, S.peer[p].ws, c)

\* Peer.setWebSocketAddress
setWebSocketAddress(S, p, address) == [S EXCEPT !.peer[p].address = address]

\* Peer.close: closes every live connection, the peer ends DISCONNECTED.
PeerClose(S, p) ==
  SetPeerConnections(
    CloseDisplaced(CloseDisplaced(S, S.peer[p].rtc, Null), S.peer[p].ws, Null),
    p, Null, Null)

\* Peer.send: on a CONNECTED connection of a CONNECTED peer, else dropped.
PeerSend(S, p, m) ==
  IF S.peer[p].state # "CONNECTED" THEN S
  ELSE IF S.peer[p].ws # Null /\ S.conn[S.peer[p].ws].state = "CONNECTED"
         THEN ConnSend(S, S.peer[p].ws, m)
  ELSE IF S.peer[p].rtc # Null /\ S.conn[S.peer[p].rtc].state = "CONNECTED"
         THEN ConnSend(S, S.peer[p].rtc, m)
  ELSE S

\* Peer.dispose: clears the neighbour edges and the subscriptions.
PeerDispose(S, p) ==
  [S EXCEPT !.peer[p].knownPeers = [i \in Identities |-> Null],
            !.peer[p].identifyHandler = FALSE,
            !.peer[p].disposed = TRUE]

\* ---------------------------------------------------------------- PeerManager
getPeersWithConnection(S) == {p \in S.peers : S.peer[p].state # "DISCONNECTED"}

getConnectedPeers(S) ==
  {p \in PeerIds : /\ \E i \in Identities : S.identifiedPeers[i] = p
                   /\ S.peer[p].state = "CONNECTED"}

\* The congestion test that trips only above maxPeers.
shouldRejectDisconnectedPeers_Above(S) ==
  Cardinality(getPeersWithConnection(S)) > maxPeers

shouldRejectDisconnectedPeers(S) == Cardinality(getPeersWithConnection(S)) >= maxPeers

getPeer(S, identity) == S.identifiedPeers[identity]

\* localPeer.isWorker
localIsWorker == FALSE

\* localPeer.getIdentifyMessage()
IdentifyMessage ==
  [type |-> "identity", identity |-> localIdentity, version |-> "compatible", nameLen |-> 0,
   isWorker |-> localIsWorker]

\* The disposal that leaves the record in the list of peers.
DisposeAndForget_StaysListed(S, p) ==
  [S EXCEPT !.identifiedPeers =
              [i \in Identities |->
                 IF i = S.peer[p].identity /\ @[i] = p THEN Null ELSE @[i]]]

\* The part of tryDisposePeer that runs once the peer is found disposable.
DisposeAndForget(S, p) ==
  [S EXCEPT !.identifiedPeers =
              [i \in Identities |->
                 IF i = S.peer[p].identity /\ @[i] = p THEN Null ELSE @[i]],
            !.peers = @ \ {p}]

\* The disposal that does not look at the neighbours of the peer.
tryDisposePeer_IgnoresNeighbours(S, p) ==
  IF /\ S.peer[p].state = "DISCONNECTED"
     /\ willNeverRetryConnecting(S, p, <<WebSocket, Outbound>>)
    THEN DisposeAndForget(PeerDispose(S, p), p)
    ELSE S

tryDisposePeer(S, p) ==
  LET hasAConnectedPeer ==
        \E i \in Identities :
          /\ S.peer[p].knownPeers[i] # Null
          /\ S.peer[S.peer[p].knownPeers[i]].state = "CONNECTED"
  IN  IF /\ S.peer[p].state = "DISCONNECTED"
         /\ ~hasAConnectedPeer
         /\ willNeverRetryConnecting(S, p, <<WebSocket, Outbound>>)
      THEN DisposeAndForget(PeerDispose(S, p), p)
      ELSE S

\* The merge that takes the connection off the existing peer and leaves it
\* open.
ReplaceExisting_LeavesOpen(S, existingPeer, old) ==
  IF S.peer[existingPeer].state # "DISCONNECTED" /\ old # Null
    THEN removeConnection(S, existingPeer, old)
    ELSE S

\* updateIdentifiedPeerMap, merging: the connection the existing peer holds in
\* a slot is removed and closed before the new peer's connection takes the slot.
ReplaceExisting(S, existingPeer, old) ==
  IF S.peer[existingPeer].state # "DISCONNECTED" /\ old # Null
    THEN ConnClose(removeConnection(S, existingPeer, old), old)
    ELSE S

\* The CONNECTED WebRTC connection of peer p moves onto the existing peer.
MergeWebRtc(S, p, existingPeer) ==
  IF S.peer[p].rtc # Null /\ S.conn[S.peer[p].rtc].state = "CONNECTED"
    THEN removeConnection(
           setWebRtcConnection(
             ReplaceExisting(S, existingPeer, S.peer[existingPeer].rtc),
             existingPeer, S.peer[p].rtc),
           p, S.peer[p].rtc)
    ELSE S

\* The CONNECTED WebSocket connection of peer p moves onto the existing peer.
MergeWebSocket(S, p, existingPeer) ==
  IF S.peer[p].ws # Null /\ S.conn[S.peer[p].ws].state = "CONNECTED"
    THEN removeConnection(
           setWebSocketConnection(
             ReplaceExisting(S, existingPeer, S.peer[existingPeer].ws),
             existingPeer, S.peer[p].ws),
           p, S.peer[p].ws)
    ELSE S

\* The map update that does not enter a newly identified peer.
updateIdentifiedPeerMap_NoRegister(S, p) ==
  IF S.peer[p].identity = Null THEN S
  ELSE IF S.identifiedPeers[S.peer[p].identity] \in {Null, p} THEN S
  ELSE IF S.peer[p].state = "DISCONNECTED"
    THEN tryDisposePeer(PeerClose(S, p), p)
  ELSE tryDisposePeer(
         neverRetryConnecting(
           MergeWebSocket(
             MergeWebRtc(S, p, S.identifiedPeers[S.peer[p].identity]),
             p, S.identifiedPeers[S.peer[p].identity]),
           p, <<WebSocket, Outbound>>),
         p)

updateIdentifiedPeerMap(S, p) ==
  IF S.peer[p].identity = Null THEN S
  ELSE IF S.identifiedPeers[S.peer[p].identity] \in {Null, p}
    THEN [S EXCEPT !.identifiedPeers[S.peer[p].identity] = p]
  ELSE IF S.peer[p].state = "DISCONNECTED"
    THEN tryDisposePeer(PeerClose(S, p), p)
  ELSE tryDisposePeer(
         neverRetryConnecting(
           MergeWebSocket(
             MergeWebRtc(S, p, S.identifiedPeers[S.peer[p].identity]),
             p, S.identifiedPeers[S.peer[p].identity]),
           p, <<WebSocket, Outbound>>),
         p)

\* The one-shot onStateChanged handler getOrCreatePeer gives a peer created
\* without identity.
IdentifyHandler(S, p) ==
  IF S.peer[p].identifyHandler /\ S.peer[p].state = "CONNECTED"
    THEN [updateIdentifiedPeerMap(S, p) EXCEPT !.peer[p].identifyHandler = FALSE]
    ELSE S

\* The onStateChanged handler that raises onConnect.
ConnectHandler(S, p, prev) ==
  IF prev # "CONNECTED" /\ S.peer[p].state = "CONNECTED"
    THEN Emit(Emit(S, [event |-> "onConnect", peer |-> p]),
              [event |-> "onConnectedPeersChanged", peer |-> Null])
    ELSE S

\* The same handler, raising onDisconnect.
DisconnectHandler(S, p, prev) ==
  IF prev = "CONNECTED" /\ S.peer[p].state # "CONNECTED"
    THEN tryDisposePeer(
           Emit(Emit(S, [event |-> "onDisconnect", peer |-> p]),
                [event |-> "onConnectedPeersChanged", peer |-> Null]), p)
    ELSE S

\* A subscriber of peer.onStateChanged is called for transition n of the
\* event.
NotifySubscriber(S, p, subscriber, n) ==
  [S EXCEPT !.notified = Append(@, [peer |-> p, subscriber |-> subscriber,
                                    transition |-> n])]

\* The one-shot handler is called while it is subscribed.
NotifyIdentify(S, p, n) ==
  IF S.peer[p].identifyHandler
    THEN IdentifyHandler(NotifySubscriber(S, p, "identify", n), p)
    ELSE S

\* The handler that raises onConnect and onDisconnect is called.
NotifyManager(S, p, prev, n) ==
  DisconnectHandler(ConnectHandler(NotifySubscriber(S, p, "manager", n), p, prev),
                    p, prev)

\* peer.onStateChanged: the subscriptions of getOrCreatePeer, in the order
\* they were made; a disposed peer has none.
OnPeerStateChanged(S, p, prev) ==
  IF S.peer[p].disposed THEN S
  ELSE NotifyManager(NotifyIdentify(S, p, S.issued), p, prev, S.issued)

\* The identity a peer has after its slots become ws and rtc: the identity
\* of its CONNECTED connection, else the one it had.
IdentityAfter(S, p, ws, rtc) ==
  IF PeerStateOf(S, ws, rtc) = "CONNECTED" THEN ConnectedIdentity(S, ws, rtc)
  ELSE S.peer[p].identity

\* Peer.setState with the state computed from the two slots.
SetPeerConnections(S, p, ws, rtc) ==
  OnPeerStateChanged(
    [S EXCEPT !.peer[p].ws = ws, !.peer[p].rtc = rtc,
              !.peer[p].state = PeerStateOf(S, ws, rtc),
              !.peer[p].identity = IdentityAfter(S, p, ws, rtc),
              !.issued = @ + 1,
              !.fatal = @ \/ (/\ S.peer[p].identity # Null
                              /\ IdentityAfter(S, p, ws, rtc) # S.peer[p].identity)],
    p, S.peer[p].state)

\* The peer whose slot holds connection c.
Holder(S, c) == CHOOSE h \in Holders(S, c) : TRUE

\* The listeners of connection.onStateChanged: the peer holding the
\* connection, and the handler of initConnectionHandlers.
OnConnStateChanged(S, c, key) ==
  IF S.conn[c].state = "WAITING_FOR_IDENTITY" THEN ConnSend(S, c, IdentifyMessage)
  ELSE IF Holders(S, c) = {} THEN S
  ELSE IF S.conn[c].state = "DISCONNECTED"
    THEN removeConnection(failedConnection(S, Holder(S, c), key), Holder(S, c), c)
  ELSE IF S.conn[c].state = "CONNECTED"
    THEN SetPeerConnections(successfulConnection(S, Holder(S, c), key), Holder(S, c),
                            S.peer[Holder(S, c)].ws, S.peer[Holder(S, c)].rtc)
  ELSE S

\* Connection.setState
ConnSetState(S, c, st, identity) ==
  IF ~ValidTransition(S.conn[c].state, st) THEN [S EXCEPT !.fatal = TRUE]
  ELSE OnConnStateChanged(
         [S EXCEPT !.conn[c].state = st, !.conn[c].identity = identity],
         c, <<S.conn[c].type, S.conn[c].direction>>)

\* A new Peer object takes the first slot of the model that holds no object
\* (none yet, or a disposed one that nothing refers to any more).
FreePeers(S) == {p \in PeerIds : p \notin S.peers /\ ~S.peer[p].disposed}

\* getOrCreatePeer: the manager state after the call and the peer it returns.
getOrCreatePeer(S, identity) ==
  IF identity # Null /\ S.identifiedPeers[identity] # Null
    THEN [S |-> S, peer |-> S.identifiedPeers[identity]]
  ELSE IF FreePeers(S) = {}
    THEN [S |-> [S EXCEPT !.overflow = TRUE], peer |-> MaxPeerRecords]
  ELSE
    LET p == CHOOSE f \in FreePeers(S) : \A g \in FreePeers(S) : f <= g
        S1 == [S EXCEPT !.peer[p] = NewPeer(identity),
                        !.peers = @ \cup {p}]
    IN  [S |-> IF identity = Null THEN S1 ELSE updateIdentifiedPeerMap(S1, p),
         peer |-> p]

\* A new Connection object takes the first slot of the model that holds no
\* object (none yet, or one that was closed and dropped).
FreeConnections(S) == {c \in ConnIds : S.conn[c].type = "none"}
FreshConnection(S) == CHOOSE c \in FreeConnections(S) : \A d \in FreeConnections(S) : c <= d

\* initWebSocketConnection: an accepted socket is already open, a dialled
\* one is still connecting.
initWebSocketConnection(S, p, direction) ==
  IF FreeConnections(S) = {} THEN [S EXCEPT !.overflow = TRUE]
  ELSE
    LET c == FreshConnection(S)
        st == IF direction = Inbound THEN "WAITING_FOR_IDENTITY" ELSE "CONNECTING"
        S1 == [S EXCEPT !.conn[c] = NewConnection(WebSocket, direction, st, FALSE, Null)]
        \* initConnectionHandlers
        S2 == IF st = "WAITING_FOR_IDENTITY" THEN ConnSend(S1, c, IdentifyMessage) ELSE S1
    IN  setWebSocketConnection(S2, p, c)

\* initWebRtcConnection: the manager state after the call and the connection.
initWebRtcConnection(S, brokeringPeer, p, initiator) ==
  IF FreeConnections(S) = {}
    THEN [S |-> [S EXCEPT !.overflow = TRUE], conn |-> MaxConnections]
  ELSE
    LET c == FreshConnection(S)
        S1 == [S EXCEPT !.conn[c] = NewConnection(WebRtc,
                                      IF initiator THEN Outbound ELSE Inbound,
                                      "CONNECTING", initiator, brokeringPeer)]
    IN  [S |-> setWebRtcConnection(S1, p, c), conn |-> c]

\* The admission test without the peer-requested disconnect window.
canConnectToWebSocket_IgnoresWindow(S, p) ==
  /\ \/ S.peer[p].state # "DISCONNECTED"
     \/ Cardinality(getPeersWithConnection(S)) < targetPeers
  /\ S.peer[p].state = "DISCONNECTED" \/ S.peer[p].ws = Null
  /\ canConnect(S, p, <<WebSocket, Outbound>>)
  /\ S.peer[p].address # Null

\* The admission test that also honours our own disconnect request.
canConnectToWebSocket_LocalWindow(S, p) ==
  /\ \/ S.peer[p].state # "DISCONNECTED"
     \/ Cardinality(getPeersWithConnection(S)) < targetPeers
  /\ \/ S.peer[p].peerRequestedDisconnectUntil = NoTime
     \/ S.now >= S.peer[p].peerRequestedDisconnectUntil
  /\ \/ S.peer[p].localRequestedDisconnectUntil = NoTime
     \/ S.now >= S.peer[p].localRequestedDisconnectUntil
  /\ S.peer[p].state = "DISCONNECTED" \/ S.peer[p].ws = Null
  /\ canConnect(S, p, <<WebSocket, Outbound>>)
  /\ S.peer[p].address # Null

\* The admission test without the retry state of the direct outbound dial.
canConnectToWebSocket_IgnoresRetry(S, p) ==
  /\ \/ S.peer[p].state # "DISCONNECTED"
     \/ Cardinality(getPeersWithConnection(S)) < targetPeers
  /\ \/ S.peer[p].peerRequestedDisconnectUntil = NoTime
     \/ S.now >= S.peer[p].peerRequestedDisconnectUntil
  /\ S.peer[p].state = "DISCONNECTED" \/ S.peer[p].ws = Null
  /\ S.peer[p].address # Null

canConnectToWebSocket(S, p) ==
  LET canEstablishNewConnection ==
        \/ S.peer[p].state # "DISCONNECTED"
        \/ Cardinality(getPeersWithConnection(S)) < targetPeers
      disconnectOk ==
        \/ S.peer[p].peerRequestedDisconnectUntil = NoTime
        \/ S.now >= S.peer[p].peerRequestedDisconnectUntil
      hasNoConnection == S.peer[p].state = "DISCONNECTED" \/ S.peer[p].ws = Null
      retryOk == canConnect(S, p, <<WebSocket, Outbound>>)
  IN  /\ canEstablishNewConnection
      /\ disconnectOk
      /\ hasNoConnection
      /\ retryOk
      /\ S.peer[p].address # Null

canConnectToWebRTC(S, p) ==
  LET canEstablishNewConnection ==
        \/ S.peer[p].state # "DISCONNECTED"
        \/ Cardinality(getPeersWithConnection(S)) < targetPeers
      disconnectOk ==
        \/ S.peer[p].peerRequestedDisconnectUntil = NoTime
        \/ S.now >= S.peer[p].peerRequestedDisconnectUntil
      hasNoConnection == S.peer[p].state = "DISCONNECTED" \/ S.peer[p].rtc = Null
      retryOk == canConnect(S, p, <<WebRtc, Outbound>>)
  IN  /\ canEstablishNewConnection
      /\ disconnectOk
      /\ hasNoConnection
      /\ retryOk
      /\ S.peer[p].identity # Null

ClearRequestedDisconnects(S, p) ==
  [S EXCEPT !.peer[p].localRequestedDisconnectUntil = NoTime,
            !.peer[p].localRequestedDisconnectReason = "none",
            !.peer[p].peerRequestedDisconnectUntil = NoTime,
            !.peer[p].peerRequestedDisconnectReason = "none"]

\* connectToWebSocket: the manager state after the call and the value returned.
connectToWebSocket(S, p) ==
  IF ~canConnectToWebSocket(S, p) THEN [S |-> S, ret |-> FALSE]
  ELSE
    LET S1 == ClearRequestedDisconnects(S, p)
    IN  IF S1.peer[p].address = Null
          THEN [S |-> failedConnection(S1, p, <<WebSocket, Outbound>>), ret |-> FALSE]
          ELSE [S |-> initWebSocketConnection(S1, p, Outbound), ret |-> TRUE]

\* The brokering candidates taken from the neighbours whatever their state.
BrokeringCandidates_AnyNeighbour(S, p) ==
  IF S.peer[p].state = "CONNECTED" THEN {p}
  ELSE IF S.peer[p].identity = Null THEN {}
  ELSE {q \in PeerIds :
          /\ \E i \in Identities : S.peer[p].knownPeers[i] = q
          /\ S.peer[q].knownPeers[S.peer[p].identity] # Null}

\* The candidates getBrokeringPeer samples from.
BrokeringCandidates(S, p) ==
  IF S.peer[p].state = "CONNECTED" THEN {p}
  ELSE IF S.peer[p].identity = Null THEN {}
  ELSE {q \in PeerIds :
          /\ \E i \in Identities : S.peer[p].knownPeers[i] = q
          /\ S.peer[q].state = "CONNECTED"
          /\ S.peer[q].knownPeers[S.peer[p].identity] # Null}

\* connectToWebRTC, not the initiator: the new connection r.conn asks the
\* brokering peer to have the other side start signalling.
RequestSignaling(r, brokeringPeer, signal) ==
  IF r.S.overflow THEN r.S
  ELSE PeerSend(ConnSetState(r.S, r.conn, "REQUEST_SIGNALING", Null), brokeringPeer, signal)

\* connectToWebRTC that asks for signalling whichever side should initiate.
connectToWebRTC_AlwaysRequests(S, p, brokeringPeer) ==
  IF ~canConnectToWebRTC(S, p) THEN [S |-> S, ret |-> FALSE]
  ELSE
    LET S1 == ClearRequestedDisconnects(S, p)
        identity == S1.peer[p].identity
    IN  IF identity = Null
          THEN [S |-> failedConnection(S1, p, <<WebRtc, Outbound>>), ret |-> FALSE]
        ELSE IF brokeringPeer = Null
          THEN [S |-> tryDisposePeer(failedConnection(S1, p, <<WebRtc, Outbound>>), p),
                ret |-> FALSE]
        ELSE [S |-> RequestSignaling(
                      initWebRtcConnection(S1, brokeringPeer, p, FALSE),
                      brokeringPeer,
                      [type |-> "signalRequest",
                       sourceIdentity |-> localIdentity,
                       destinationIdentity |-> identity]),
              ret |-> TRUE]

\* connectToWebRTC with the brokering peer getBrokeringPeer returned (Null
\* when there is no candidate).
connectToWebRTC(S, p, brokeringPeer) ==
  IF ~canConnectToWebRTC(S, p) THEN [S |-> S, ret |-> FALSE]
  ELSE
    LET S1 == ClearRequestedDisconnects(S, p)
        identity == S1.peer[p].identity
    IN  IF identity = Null
          THEN [S |-> failedConnection(S1, p, <<WebRtc, Outbound>>), ret |-> FALSE]
        ELSE IF brokeringPeer = Null
          THEN [S |-> tryDisposePeer(failedConnection(S1, p, <<WebRtc, Outbound>>), p),
                ret |-> FALSE]
        ELSE IF canInitiateWebRTC(localIdentity, identity)
          THEN [S |-> initWebRtcConnection(S1, brokeringPeer, p, TRUE).S, ret |-> TRUE]
        ELSE [S |-> RequestSignaling(
                      initWebRtcConnection(S1, brokeringPeer, p, FALSE),
                      brokeringPeer,
                      [type |-> "signalRequest",
                       sourceIdentity |-> localIdentity,
                       destinationIdentity |-> identity]),
              ret |-> TRUE]

\* disconnect without the final peer.close().
disconnect_KeepsOpen(S, p, reason, until) ==
  LET S1 == [S EXCEPT !.peer[p].localRequestedDisconnectReason = reason,
                      !.peer[p].localRequestedDisconnectUntil = until]
      message == [type |-> "disconnecting",
                  sourceIdentity |-> localIdentity,
                  destinationIdentity |-> S.peer[p].identity,
                  reason |-> reason,
                  disconnectUntil |-> until]
      rtc == S1.peer[p].rtc
      ws == S1.peer[p].ws
      S2 == IF rtc # Null THEN ConnSend(S1, rtc, message) ELSE S1
  IN  IF S1.peer[p].state = "DISCONNECTED" THEN S1
      ELSE IF ws # Null THEN ConnSend(S2, ws, message) ELSE S2

\* disconnect(peer, reason, until)
disconnect(S, p, reason, until) ==
  LET S1 == [S EXCEPT !.peer[p].localRequestedDisconnectReason = reason,
                      !.peer[p].localRequestedDisconnectUntil = until]
      message == [type |-> "disconnecting",
                  sourceIdentity |-> localIdentity,
                  destinationIdentity |-> S.peer[p].identity,
                  reason |-> reason,
                  disconnectUntil |-> until]
      canSend(c) == S1.conn[c].state \in {"WAITING_FOR_IDENTITY", "CONNECTED"}
      rtc == S1.peer[p].rtc
      ws == S1.peer[p].ws
      S2 == IF rtc # Null /\ canSend(rtc) THEN ConnSend(S1, rtc, message) ELSE S1
      S3 == IF ws # Null /\ canSend(ws) THEN ConnSend(S2, ws, message) ELSE S2
  IN  IF S1.peer[p].state = "DISCONNECTED" THEN S1 ELSE PeerClose(S3, p)

\* broadcast(message): to every CONNECTED peer of identifiedPeers.
broadcast(S, message) ==
  LET RECURSIVE Each(_, _)
      Each(T, is) ==
        IF is = {} THEN T
        ELSE LET i == CHOOSE x \in is : \A y \in is : x <= y
             IN  Each(IF /\ T.identifiedPeers[i] # Null
                         /\ T.peer[T.identifiedPeers[i]].state = "CONNECTED"
                        THEN PeerSend(T, T.identifiedPeers[i], message)
                        ELSE T,
                      is \ {i})
  IN  Each(S, Identities)

\* The list that never leaves the workers out.
ListedPeers_WithWorkers(S, broadcastWorkers) ==
  {q \in PeerIds : /\ \E i \in Identities : S.identifiedPeers[i] = q
                   /\ S.peer[q].state = "CONNECTED"}

\* The peers broadcastPeerList puts in the list.
ListedPeers(S, broadcastWorkers) ==
  {q \in PeerIds : /\ \E i \in Identities : S.identifiedPeers[i] = q
                   /\ S.peer[q].state = "CONNECTED"
                   /\ ~(S.peer[q].isWorker /\ ~broadcastWorkers)}

\* broadcastPeerList, with the value localPeer.broadcastWorkers has.
broadcastPeerList(S, broadcastWorkers) ==
  broadcast(S,
    [type |-> "peerList",
     connectedPeers |->
       [i \in {S.peer[q].identity : q \in ListedPeers(S, broadcastWorkers)} |->
          S.peer[CHOOSE q \in ListedPeers(S, broadcastWorkers) :
                   S.peer[q].identity = i].address]])

disposePeers(S) ==
  LET RECURSIVE Sweep(_, _)
      Sweep(T, ps) ==
        IF ps = {} THEN T
        ELSE LET q == CHOOSE x \in ps : \A y \in ps : x <= y
             IN  Sweep(tryDisposePeer(T, q), ps \ {q})
  IN  Sweep(S, S.peers)

\* ---------------------------------------------------------- message handlers
\* Forwarding shared by Disconnecting, SignalRequest and Signal: only when the
\* sender is the origin and the destination is an identified peer.
\* Forwarding without the test that the sender is the origin.
Forward_AnySource(S, messageSender, m) ==
  LET destinationPeer == getPeer(S, m.destinationIdentity)
  IN  IF destinationPeer = Null THEN S ELSE PeerSend(S, destinationPeer, m)

Forward(S, messageSender, m) ==
  IF m.sourceIdentity # S.peer[messageSender].identity THEN S
  ELSE LET destinationPeer == getPeer(S, m.destinationIdentity)
       IN  IF destinationPeer = Null THEN S
           ELSE PeerSend(S, destinationPeer, m)

handleDisconnectingMessage(S, messageSender, m) ==
  IF m.destinationIdentity # localIdentity /\ m.destinationIdentity # Null
    THEN Forward(S, messageSender, m)
    ELSE PeerClose(
           [S EXCEPT !.peer[messageSender].peerRequestedDisconnectReason = m.reason,
                     !.peer[messageSender].peerRequestedDisconnectUntil = m.disconnectUntil],
           messageSender)

\* The connection closeConnection picks when both sides dialled each other.
DuplicateToClose(S, c, existingConnection, identity) ==
  LET first ==
        IF canKeepDuplicateConnection(identity, localIdentity)
          THEN IF S.conn[c].direction = Outbound THEN c
               ELSE IF S.conn[existingConnection].direction = Outbound
                 THEN existingConnection
               ELSE c
          ELSE c
  IN  IF canKeepDuplicateConnection(localIdentity, identity)
        THEN IF S.conn[c].direction = Inbound THEN c
             ELSE IF S.conn[existingConnection].direction = Inbound
               THEN existingConnection
             ELSE first
        ELSE first

\* The connection taken off peer p is installed on peer q, with the address
\* p was dialled at when the connection is that dial.
InstallMoved(S, p, q, c) ==
  IF S.conn[c].type = WebRtc THEN setWebRtcConnection(S, q, c)
  ELSE setWebSocketConnection(
         IF S.conn[c].direction = Outbound /\ S.peer[p].address # Null
           THEN setWebSocketAddress(setWebSocketAddress(S, q, S.peer[p].address), p, Null)
           ELSE S,
         q, c)

InstallOn(r, p, c) == InstallMoved(r.S, p, r.peer, c)

\* The migration forgotten: the connection stays on the record of the old
\* identity.
MoveToIdentity_Stays(S, p, c, identity) == S

\* The identity of the frame differs from the identity the peer already has:
\* the connection moves to the peer of the new identity.
MoveToIdentity(S, p, c, identity) ==
  InstallOn(
    getOrCreatePeer(
      neverRetryConnecting(removeConnection(S, p, c), p,
                           <<S.conn[c].type, S.conn[c].direction>>),
      identity),
    p, c)

\* The address is taken off a peer whose dialled connection reached ourselves.
ClearDialledAddress(S, p, key) ==
  IF key = <<WebSocket, Outbound>> THEN setWebSocketAddress(S, p, Null) ELSE S

\* The frame carries our own identity.
SelfIdentity(S, p, c, key) ==
  tryDisposePeer(
    ConnClose(
      ClearDialledAddress(neverRetryConnecting(removeConnection(S, p, c), p, key), p, key),
      c),
    p)

\* We told the peer of this identity to stay away, and the time is not over.
LocalWindowOpen(S, existingPeer) ==
  /\ existingPeer # Null
  /\ S.peer[existingPeer].localRequestedDisconnectUntil # NoTime
  /\ S.now < S.peer[existingPeer].localRequestedDisconnectUntil

RepeatedDisconnect(S, existingPeer, identity) ==
  [type |-> "disconnecting",
   sourceIdentity |-> localIdentity,
   destinationIdentity |-> identity,
   reason |-> IF S.peer[existingPeer].localRequestedDisconnectReason = "none"
                THEN "Congested"
                ELSE S.peer[existingPeer].localRequestedDisconnectReason,
   disconnectUntil |-> S.peer[existingPeer].localRequestedDisconnectUntil]

\* The end of the handshake that does not look at our disconnect request.
Admit_IgnoresWindow(S, c, identity, existingPeer) ==
  ConnSetState(S, c, "CONNECTED", identity)

\* The end of the handshake: the connection is turned away while our
\* disconnect request stands, and becomes CONNECTED otherwise.
Admit(S, c, identity, existingPeer) ==
  IF LocalWindowOpen(S, existingPeer)
    THEN ConnClose(ConnSend(S, c, RepeatedDisconnect(S, existingPeer, identity)), c)
    ELSE ConnSetState(S, c, "CONNECTED", identity)

\* The peer of the identity is CONNECTED and holds a WebSocket connection.
IsDuplicate(S, c, existingPeer) ==
  /\ existingPeer # Null
  /\ S.peer[existingPeer].state = "CONNECTED"
  /\ S.peer[existingPeer].ws # Null
  /\ S.conn[c].type = WebSocket

\* The peer holding the connection takes the attributes of the Identify.
RecordIdentify(S, c, m) ==
  IF Holders(S, c) = {} THEN S
  ELSE [S EXCEPT !.peer[Holder(S, c)].isWorker = m.isWorker]

\* The arbitration that goes on to the end of the handshake after it closed
\* the connection of the frame.
Arbitrate_NoReturn(S, c, m) ==
  LET identity == m.identity
      existingPeer == getPeer(S, identity)
      connectionToClose == DuplicateToClose(S, c, S.peer[existingPeer].ws, identity)
  IN  IF ~IsDuplicate(S, c, existingPeer)
        THEN Admit(RecordIdentify(S, c, m), c, identity, existingPeer)
      ELSE Admit(RecordIdentify(ConnClose(S, connectionToClose), c, m),
                 c, identity, existingPeer)

\* Duplicate arbitration, then the end of the handshake.
Arbitrate(S, c, m) ==
  LET identity == m.identity
      existingPeer == getPeer(S, identity)
      connectionToClose == DuplicateToClose(S, c, S.peer[existingPeer].ws, identity)
  IN  IF ~IsDuplicate(S, c, existingPeer)
        THEN Admit(RecordIdentify(S, c, m), c, identity, existingPeer)
      ELSE IF connectionToClose = c THEN ConnClose(S, c)
      ELSE Admit(RecordIdentify(ConnClose(S, connectionToClose), c, m),
                 c, identity, existingPeer)

\* The rejection that records no failed connection.
RejectIdentify_NoFailure(S, p, key) == PeerClose(S, p)

\* The Identify has a malformed identity, an incompatible version or a name
\* longer than 32: the failure is recorded on the retry state of the
\* connection's transport and direction, and the peer is closed.
RejectIdentify(S, p, key) == PeerClose(failedConnection(S, p, key), p)

handleWaitingForIdentityMessage(S, p, c, m) ==
  LET key == <<S.conn[c].type, S.conn[c].direction>>
  IN
  IF m.type # "identity" THEN PeerClose(S, p)
  ELSE IF \/ ~isIdentity(m.identity)
          \/ m.version # "compatible"
          \/ m.nameLen > 32
    THEN RejectIdentify(S, p, key)
  ELSE IF m.identity = localIdentity THEN SelfIdentity(S, p, c, key)
  ELSE IF S.peer[p].identity # Null /\ S.peer[p].identity # m.identity
    THEN Arbitrate(MoveToIdentity(S, p, c, m.identity), c, m)
  ELSE Arbitrate(S, c, m)

\* addKnownPeerTo: the edge and its reverse.
AddEdge(S, p, addTo, emitKnownPeersChanged) ==
  IF S.peer[addTo].knownPeers[S.peer[p].identity] # Null THEN S
  ELSE LET S1 == [S EXCEPT !.peer[addTo].knownPeers[S.peer[p].identity] = p]
       IN  IF emitKnownPeersChanged /\ ~S.peer[addTo].disposed
             THEN Emit(S1, [event |-> "onKnownPeersChanged", peer |-> addTo])
             ELSE S1

addKnownPeerTo(S, p, addTo, emitKnownPeersChanged) ==
  IF S.peer[p].identity = Null \/ S.peer[addTo].identity = Null THEN S
  ELSE IF S.peer[p].identity = S.peer[addTo].identity THEN S
  ELSE LET S1 == AddEdge(S, p, addTo, emitKnownPeersChanged)
       IN  AddEdge(S1, addTo, p, TRUE)

\* The reply of a node that is at maxPeers.
CongestedMessage(sourceIdentity) ==
  [type |-> "disconnecting",
   sourceIdentity |-> localIdentity,
   destinationIdentity |-> sourceIdentity,
   reason |-> "Congested",
   disconnectUntil |-> 1000 * 60 * 5]

\* True when a signalling message from sourceIdentity is turned away.
RejectCongested(S, sourceIdentity) ==
  /\ shouldRejectDisconnectedPeers(S)
  /\ LET peer == getPeer(S, sourceIdentity)
     IN  peer = Null \/ S.peer[peer].state # "CONNECTED"

\* handleSignalRequestMessage, the request is for us: a WebRTC connection to
\* the target peer is opened unless the peer has one.
OpenForRequest(S, targetPeer, messageSender) ==
  IF S.peer[targetPeer].state # "DISCONNECTED" /\ S.peer[targetPeer].rtc # Null
    THEN S
    ELSE initWebRtcConnection(S, messageSender, targetPeer, TRUE).S

RequestFrom(r, messageSender) ==
  OpenForRequest(addKnownPeerTo(r.S, r.peer, messageSender, TRUE), r.peer, messageSender)

handleSignalRequestMessage(S, messageSender, m) ==
  IF canInitiateWebRTC(m.sourceIdentity, m.destinationIdentity) THEN S
  ELSE IF m.destinationIdentity # localIdentity THEN Forward(S, messageSender, m)
  ELSE IF RejectCongested(S, m.sourceIdentity)
    THEN PeerSend(S, messageSender, CongestedMessage(m.sourceIdentity))
  ELSE RequestFrom(getOrCreatePeer(S, m.sourceIdentity), messageSender)

\* handleSignalMessage, the end: the signalling data goes to connection
\* r.conn, which is closed when the data cannot be decrypted or parsed.
FeedSignal(r, m) ==
  IF r.S.overflow THEN r.S
  ELSE IF m.signal # "valid" THEN ConnClose(r.S, r.conn)
  ELSE [r.S EXCEPT !.conn[r.conn].fed = TRUE]

\* handleSignalMessage, the signal is for us: the WebRTC connection of the
\* signalling peer is looked up or created.
SignalFrom(S, signalingPeer, messageSender, m) ==
  IF S.peer[signalingPeer].state = "DISCONNECTED" \/ S.peer[signalingPeer].rtc = Null
    THEN IF S.peer[signalingPeer].identity = Null THEN S
         ELSE IF ~canInitiateWebRTC(S.peer[signalingPeer].identity, m.destinationIdentity)
           THEN S
         ELSE FeedSignal(initWebRtcConnection(S, messageSender, signalingPeer, FALSE), m)
    ELSE FeedSignal([S |-> S, conn |-> S.peer[signalingPeer].rtc], m)

SignalOf(r, messageSender, m) ==
  SignalFrom(addKnownPeerTo(r.S, r.peer, messageSender, TRUE), r.peer, messageSender, m)

handleSignalMessage(S, messageSender, m) ==
  IF m.destinationIdentity # localIdentity THEN Forward(S, messageSender, m)
  ELSE IF RejectCongested(S, m.sourceIdentity)
    THEN PeerSend(S, messageSender, CongestedMessage(m.sourceIdentity))
  ELSE SignalOf(getOrCreatePeer(S, m.sourceIdentity), messageSender, m)

\* handlePeerListMessage, an edge added: the neighbour r.peer takes the
\* advertised address and becomes a known peer of p.
AddNeighbour(r, p, address) ==
  addKnownPeerTo(setWebSocketAddress(r.S, r.peer, address), r.peer, p, FALSE)

\* handlePeerListMessage that works out the new edges first and then drops
\* every edge the peer had.
handlePeerListMessage_ClearsFirst(S, m, p) ==
  IF S.peer[p].state # "CONNECTED" THEN S
  ELSE
    LET newPeerSet == (DOMAIN m.connectedPeers) \ {localIdentity}
        added == {i \in newPeerSet : S.peer[p].knownPeers[i] = Null}
        S1 == [S EXCEPT !.peer[p].knownPeers = [i \in Identities |-> Null]]
        RECURSIVE Add(_, _)
        Add(T, is) ==
          IF is = {} THEN T
          ELSE LET i == CHOOSE x \in is : \A y \in is : x <= y
               IN  Add(AddNeighbour(getOrCreatePeer(T, i), p, m.connectedPeers[i]),
                       is \ {i})
    IN  Add(S1, added)

\* handlePeerListMessage; connectedPeers is the list reduced to a map from
\* identity to the advertised address.
handlePeerListMessage(S, m, p) ==
  IF S.peer[p].state # "CONNECTED" THEN S
  ELSE IF localIsWorker THEN S
  ELSE
    LET newPeerSet == (DOMAIN m.connectedPeers) \ {localIdentity}
        removed == {i \in Identities : S.peer[p].knownPeers[i] # Null /\ i \notin newPeerSet}
        RECURSIVE Remove(_, _)
        Remove(T, is) ==
          IF is = {} THEN T
          ELSE LET i == CHOOSE x \in is : \A y \in is : x <= y
                   otherPeer == T.peer[p].knownPeers[i]
                   T1 == [T EXCEPT !.peer[p].knownPeers[i] = Null,
                                   !.peer[otherPeer].knownPeers[T.peer[p].identity] = Null]
               IN  Remove(tryDisposePeer(tryDisposePeer(T1, p), otherPeer), is \ {i})
        S1 == Remove(S, removed)
        added == {i \in newPeerSet : S1.peer[p].knownPeers[i] = Null}
        RECURSIVE Add(_, _)
        Add(T, is) ==
          IF is = {} THEN T
          ELSE LET i == CHOOSE x \in is : \A y \in is : x <= y
               IN  Add(AddNeighbour(getOrCreatePeer(T, i), p, m.connectedPeers[i]),
                       is \ {i})
        S2 == Add(S1, added)
    IN  IF removed # {} \/ added # {}
          THEN Emit(S2, [event |-> "onKnownPeersChanged", peer |-> p])
          ELSE S2

\* The dispatch that holds back only Identify frames for the handshake.
handleMessage_GateIdentifyOnly(S, p, c, m) ==
  IF m.type = "disconnecting" THEN handleDisconnectingMessage(S, p, m)
  ELSE IF m.type = "identity"
    THEN IF S.conn[c].state = "WAITING_FOR_IDENTITY"
           THEN handleWaitingForIdentityMessage(S, p, c, m)
           ELSE S
  ELSE IF m.type = "signalRequest" THEN handleSignalRequestMessage(S, p, m)
  ELSE IF m.type = "signal" THEN handleSignalMessage(S, p, m)
  ELSE IF m.type = "peerList" THEN handlePeerListMessage(S, m, p)
  ELSE IF S.peer[p].identity = Null THEN PeerClose(S, p)
  ELSE Emit(S, [event |-> "onMessage", peer |-> p, message |-> m])

handleMessage(S, p, c, m) ==
  IF m.type = "disconnecting" THEN handleDisconnectingMessage(S, p, m)
  ELSE IF S.conn[c].state = "WAITING_FOR_IDENTITY"
    THEN handleWaitingForIdentityMessage(S, p, c, m)
  ELSE IF m.type = "identity" THEN S
  ELSE IF m.type = "signalRequest" THEN handleSignalRequestMessage(S, p, m)
  ELSE IF m.type = "signal" THEN handleSignalMessage(S, p, m)
  ELSE IF m.type = "peerList" THEN handlePeerListMessage(S, m, p)
  ELSE IF S.peer[p].identity = Null THEN PeerClose(S, p)
  ELSE Emit(S, [event |-> "onMessage", peer |-> p, message |-> m])

\* stop(), the part on the peers: every peer of the list is disconnected.
stop(S) ==
  LET RECURSIVE Each(_, _)
      Each(T, ps) ==
        IF ps = {} THEN T
        ELSE LET q == CHOOSE x \in ps : \A y \in ps : x <= y
             IN  Each(disconnect(T, q, "ShuttingDown", 0), ps \ {q})
  IN  Each(S, S.peers)

\* ------------------------------------------------------------------- timers
\* The two handles of the manager and the intervals of the runtime: live
\* holds the intervals that have not been cleared and created counts the
\* intervals handed out; started records whether the last of the calls of
\* start() and stop() was start().
NoTimers ==
  [broadcastPeerListHandle |-> Null, disposePeersHandle |-> Null,
   live |-> {}, created |-> 0, started |-> FALSE]

\* The callback of an interval: start() makes the broadcast interval first.
IntervalCallback(id) == IF id % 2 = 1 THEN "broadcastPeerList" ELSE "disposePeers"

clearInterval(T, handle) ==
  IF handle = Null THEN T ELSE [T EXCEPT !.live = @ \ {handle}]

\* start(): two new intervals, their handles put over the old ones.
startTimers(T) ==
  [T EXCEPT !.broadcastPeerListHandle = T.created + 1,
            !.disposePeersHandle = T.created + 2,
            !.live = @ \cup {T.created + 1, T.created + 2},
            !.created = @ + 2,
            !.started = TRUE]

\* stop() that clears the broadcast interval only.
stopTimers_KeepsSweep(T) ==
  [clearInterval(T, T.broadcastPeerListHandle) EXCEPT !.started = FALSE]

\* stop(), the part on the timers: the intervals of the two handles are
\* cleared.
stopTimers(T) ==
  [clearInterval(clearInterval(T, T.broadcastPeerListHandle), T.disposePeersHandle)
     EXCEPT !.started = FALSE]

\* ------------------------------------------------------------------- state
VARIABLES
  timers,           \* broadcastPeerListHandle, disposePeersHandle, the intervals
  peers,            \* this.peers
  identifiedPeers,  \* this.identifiedPeers
  peer,             \* the Peer records ever created
  conn,             \* the Connection objects ever created
  now,              \* Date.now()
  fatal,            \* an illegal state transition was raised
  sent,             \* the messages the last event put on connections
  emitted,          \* the events the last event emitted, in order
  notified,         \* the onStateChanged calls of the last event, in order
  last              \* the last event handled, with its arguments and result

vars == <<timers, peers, identifiedPeers, peer, conn, now, fatal,
          sent, emitted, notified, last>>

\* Objects nothing refers to any more are dropped: a closed connection no
\* peer holds, and a disposed peer record that holds no connection, brokers
\* none and is in no peer's knownPeers.
Referenced(S, p) ==
  \/ S.peer[p].ws # Null
  \/ S.peer[p].rtc # Null
  \/ \E c \in ConnIds : S.conn[c].broker = p
  \/ \E q \in PeerIds, i \in Identities : S.peer[q].knownPeers[i] = p

Collect(S) ==
  [S EXCEPT
     !.conn = [c \in ConnIds |->
                 IF S.conn[c].state = "DISCONNECTED" /\ Holders(S, c) = {}
                   THEN NoConnection ELSE S.conn[c]],
     !.peer = [p \in PeerIds |->
                 IF S.peer[p].disposed /\ ~Referenced(S, p)
                   THEN NewPeer(Null) ELSE S.peer[p]]]

\* The manager state an event starts from.
Cur ==
  Collect([ peers |-> peers, identifiedPeers |-> identifiedPeers, peer |-> peer,
            conn |-> conn, now |-> now, fatal |-> fatal,
            sent |-> <<>>, emitted |-> <<>>, overflow |-> FALSE,
            issued |-> 0, notified |-> <<>> ])

\* The event ends in manager state S and with timers T; it is not taken
\* when it would need more records than the model has.
CommitWith(S, l, T) ==
  /\ ~S.overflow
  /\ timers' = T
  /\ peers' = S.peers
  /\ identifiedPeers' = S.identifiedPeers
  /\ peer' = S.peer
  /\ conn' = S.conn
  /\ now' = S.now
  /\ fatal' = S.fatal
  /\ sent' = S.sent
  /\ emitted' = S.emitted
  /\ notified' = S.notified
  /\ last' = l

\* An event that leaves the timers alone.
Commit(S, l) == CommitWith(S, l, timers)

NoMessage == [type |-> "none"]

Event(op, p, c, m, ret) == [op |-> op, peer |-> p, conn |-> c, msg |-> m, ret |-> ret]

Init ==
  /\ timers = NoTimers
  /\ peers = {}
  /\ identifiedPeers = [i \in Identities |-> Null]
  /\ peer = [p \in PeerIds |-> NewPeer(Null)]
  /\ conn = [c \in ConnIds |-> NoConnection]
  /\ now = 0
  /\ fatal = FALSE
  /\ sent = <<>>
  /\ emitted = <<>>
  /\ notified = <<>>
  /\ last = Event("init", Null, Null, NoMessage, FALSE)

\* The manager after construction and start().
Started ==
  /\ timers = startTimers(NoTimers)
  /\ peers = {}
  /\ identifiedPeers = [i \in Identities |-> Null]
  /\ peer = [p \in PeerIds |-> NewPeer(Null)]
  /\ conn = [c \in ConnIds |-> NoConnection]
  /\ now = 0
  /\ fatal = FALSE
  /\ sent = <<>>
  /\ emitted = <<>>
  /\ notified = <<>>
  /\ last = Event("start", Null, Null, NoMessage, TRUE)

\* ----------------------------------------------------------------- messages
Identify(i, v, n) ==
  [type |-> "identity", identity |-> i, version |-> v, nameLen |-> n, isWorker |-> FALSE]

\* The Identify of a worker node.
WorkerIdentify(i) == [Identify(i, "compatible", 32) EXCEPT !.isWorker = TRUE]

ValidIdentifyMessages == {Identify(i, "compatible", 32) : i \in Identities}

RemoteIdentifyMessages ==
  {Identify(i, "compatible", 32) : i \in Identities \ {localIdentity}}

IdentifyMessages ==
  ValidIdentifyMessages \cup
    {Identify(BadIdentity, "compatible", 32),
     Identify(1, "incompatible", 32),
     Identify(1, "compatible", 33)}

DisconnectReasons == {"ShuttingDown", "Congested"}

DisconnectingMessages ==
  {[type |-> "disconnecting", sourceIdentity |-> s, destinationIdentity |-> d,
    reason |-> "ShuttingDown", disconnectUntil |-> u] :
     s \in Identities, d \in Identities \cup {Null}, u \in {MaxTime}}

SignalRequestMessages ==
  {[type |-> "signalRequest", sourceIdentity |-> s, destinationIdentity |-> d] :
     s \in Identities, d \in Identities}

SignalMessages ==
  {[type |-> "signal", sourceIdentity |-> s, destinationIdentity |-> d, signal |-> x] :
     s \in Identities, d \in Identities, x \in {"valid", "undecryptable", "unparsable"}}

ApplicationMessages == {[type |-> "application"]}

\* ------------------------------------------------------------------ actions
\* The call ends with the manager state d.S and returns d.ret.
Return(d, op, p, c) == Commit(d.S, Event(op, p, c, NoMessage, d.ret))

DialNew(r, isWhitelisted) ==
  Return(connectToWebSocket(
           [setWebSocketAddress(r.S, r.peer, Address)
              EXCEPT !.peer[r.peer].isWhitelisted = isWhitelisted],
           r.peer),
         "connectToWebSocketAddress", r.peer, Null)

\* connectToWebSocketAddress(uri, isWhitelisted)
ConnectToWebSocketAddress(isWhitelisted) ==
  DialNew(getOrCreatePeer(Cur, Null), isWhitelisted)

\* A dial of peer p ends with the manager state d.S and returns d.ret; the
\* event keeps whether our own disconnect request stood when the call came.
ReturnDial(d, op, p, c) ==
  Commit(d.S, [op |-> op, peer |-> p, conn |-> c, msg |-> NoMessage, ret |-> d.ret,
               window |-> LocalWindowOpen(Cur, p)])

\* connectToWebSocket(peer)
ConnectToWebSocket(p) ==
  /\ p \in peers
  /\ ReturnDial(connectToWebSocket(Cur, p), "connectToWebSocket", p, Null)

\* connectToWebRTC(peer)
ConnectToWebRTC(p) ==
  /\ p \in peers
  /\ LET candidates == BrokeringCandidates(Cur, p)
     IN  \E b \in (IF candidates = {} THEN {Null} ELSE candidates) :
           ReturnDial(connectToWebRTC(Cur, p, b), "connectToWebRTC", p, b)

AcceptOn(r) ==
  Commit(IF r.S.overflow THEN r.S ELSE initWebSocketConnection(r.S, r.peer, Inbound),
         Event("createPeerFromInboundWebSocketConnection", r.peer, Null, NoMessage, TRUE))

\* createPeerFromInboundWebSocketConnection(webSocket, address)
CreatePeerFromInboundWebSocketConnection ==
  AcceptOn(getOrCreatePeer(Cur, Null))

\* The transport of a connection opens: the socket, or the data channel.
ConnectionOpened(c) ==
  /\ Holders(Cur, c) # {}
  /\ \/ conn[c].type = WebSocket /\ conn[c].state = "CONNECTING"
     \/ conn[c].type = WebRtc /\ conn[c].state = "SIGNALING"
  /\ Commit(ConnSetState(Cur, c, "WAITING_FOR_IDENTITY", Null),
            Event("opened", Null, c, NoMessage, TRUE))

\* connection.onSignal of initWebRtcConnection: the signalling data goes to
\* the peer through the brokering peer.
onSignal(S, p, c) ==
  IF S.peer[p].identity = Null THEN ConnClose(S, c)
  ELSE PeerSend(S, S.conn[c].broker,
                [type |-> "signal", sourceIdentity |-> localIdentity,
                 destinationIdentity |-> S.peer[p].identity, signal |-> "valid"])

\* The WebRTC transport produces local signalling data: the connection is
\* SIGNALING and the onSignal handler of initWebRtcConnection relays the data.
SignalEmitted(c) ==
  /\ Holders(Cur, c) # {}
  /\ conn[c].type = WebRtc
  /\ conn[c].state \in {"CONNECTING", "REQUEST_SIGNALING", "SIGNALING"}
  /\ conn[c].initiator \/ conn[c].fed
  /\ Commit(onSignal(IF conn[c].state = "SIGNALING" THEN Cur
                      ELSE ConnSetState(Cur, c, "SIGNALING", Null),
                      Holder(Cur, c), c),
            Event("signalEmitted", Holder(Cur, c), c, NoMessage, TRUE))

\* The transport of a connection closes or fails.
ConnectionClosed(c) ==
  /\ Holders(Cur, c) # {}
  /\ conn[c].state # "DISCONNECTED"
  /\ Commit(ConnClose(Cur, c), Event("closed", Null, c, NoMessage, TRUE))

\* A frame arrives on an open connection: Peer.onMessage -> handleMessage.
ReceiveMessage(c, m) ==
  /\ Holders(Cur, c) # {}
  /\ conn[c].state \in {"WAITING_FOR_IDENTITY", "CONNECTED"}
  /\ Commit(handleMessage(Cur, Holder(Cur, c), c, m),
            [op |-> "message", peer |-> Holder(Cur, c), conn |-> c, msg |-> m,
             ret |-> TRUE,
             again |-> (/\ m.type = "peerList"
                        /\ last.op = "message" /\ last.conn = c /\ last.msg = m)])

\* disconnect(peer, reason, until)
Disconnect(p, reason, until) ==
  /\ p \in peers
  /\ Commit(disconnect(Cur, p, reason, until),
            [op |-> "disconnect", peer |-> p, conn |-> Null, msg |-> NoMessage,
             ret |-> TRUE, reason |-> reason, until |-> until])

\* An interval with the callback is live.
TimerLive(callback) == \E id \in timers.live : IntervalCallback(id) = callback

\* The periodic peer-list broadcast: an interval of start() fires.
BroadcastPeerList(broadcastWorkers) ==
  /\ TimerLive("broadcastPeerList")
  /\ Commit(broadcastPeerList(Cur, broadcastWorkers),
            [op |-> "broadcastPeerList", peer |-> Null, conn |-> Null, msg |-> NoMessage,
             ret |-> TRUE, broadcastWorkers |-> broadcastWorkers])

\* The periodic disposal sweep: an interval of start() fires.
DisposePeers ==
  /\ TimerLive("disposePeers")
  /\ Commit(disposePeers(Cur), Event("disposePeers", Null, Null, NoMessage, TRUE))

\* start()
Start ==
  /\ timers.created + 2 <= MaxIntervals
  /\ CommitWith(Cur, Event("start", Null, Null, NoMessage, TRUE), startTimers(timers))

\* stop()
Stop ==
  CommitWith(stop(Cur), Event("stop", Null, Null, NoMessage, TRUE), stopTimers(timers))

\* Time passes.
Tick ==
  /\ now < MaxTime
  /\ Commit([Cur EXCEPT !.now = now + 1], Event("tick", Null, Null, NoMessage, TRUE))

\* A Disconnecting frame addressed to us.
DisconnectingToUs(until) ==
  [type |-> "disconnecting", sourceIdentity |-> 1, destinationIdentity |-> localIdentity,
   reason |-> "ShuttingDown", disconnectUntil |-> until]

\* The frames of a handshake.
HandshakeMessages ==
  {Identify(1, "compatible", 32), Identify(localIdentity, "compatible", 32),
   Identify(BadIdentity, "compatible", 32), Identify(1, "incompatible", 32),
   Identify(1, "compatible", 33)} \cup ApplicationMessages

\* The frames of a node that is dialled: its Identify, and its request that
\* we stay away.
DialMessages ==
  {Identify(1, "compatible", 32), DisconnectingToUs(0), DisconnectingToUs(MaxTime)}

\* The frames a relaying node is sent for others.
RelayMessages ==
  {[type |-> "disconnecting", sourceIdentity |-> s, destinationIdentity |-> d,
    reason |-> "ShuttingDown", disconnectUntil |-> MaxTime] :
     s \in Identities \ {localIdentity}, d \in (Identities \ {localIdentity}) \cup {Null}}
  \cup {[type |-> "signalRequest", sourceIdentity |-> s, destinationIdentity |-> d] :
     s \in Identities \ {localIdentity}, d \in Identities \ {localIdentity}}
  \cup {[type |-> "signal", sourceIdentity |-> s, destinationIdentity |-> d,
         signal |-> "valid"] :
     s \in Identities \ {localIdentity}, d \in Identities \ {localIdentity}}

\* At most DialConnections connections are open after the step.
FewConnections ==
  Cardinality({c \in ConnIds : conn'[c].state # "DISCONNECTED"}) <= DialConnections

\* At most DialPeers peer records are in the peers list after the step.
FewPeers == Cardinality(peers') <= DialPeers

\* Direct connections only: dials, accepts, transport events, the handshake
\* with every kind of Identify frame, and the disposal sweep.
Next ==
  \/ ConnectToWebSocketAddress(TRUE) /\ FewConnections
  \/ \E p \in PeerIds : ConnectToWebSocket(p) /\ FewConnections
  \/ CreatePeerFromInboundWebSocketConnection /\ FewConnections
  \/ \E c \in ConnIds : ConnectionOpened(c)
  \/ \E c \in ConnIds : ConnectionClosed(c)
  \/ \E c \in ConnIds, m \in HandshakeMessages : ReceiveMessage(c, m)
  \/ DisposePeers

Spec == Started /\ [][Next]_vars

\* Repeated dials and accepts of remote nodes that pass the handshake checks.
NextMerge ==
  \/ ConnectToWebSocketAddress(TRUE) /\ FewConnections
  \/ \E p \in PeerIds : ConnectToWebSocket(p) /\ FewConnections
  \/ CreatePeerFromInboundWebSocketConnection /\ FewConnections
  \/ \E c \in ConnIds : ConnectionOpened(c)
  \/ \E c \in ConnIds : ConnectionClosed(c)
  \/ \E c \in ConnIds, m \in RemoteIdentifyMessages : ReceiveMessage(c, m)
  \/ DisposePeers

SpecMerge == Started /\ [][NextMerge]_vars

\* Inbound connections only, as many as the model has connections; the
\* accepted peers list node 3 with an address, without one, or not at all.
NextAccept ==
  \/ CreatePeerFromInboundWebSocketConnection
  \/ \E c \in ConnIds : ConnectionClosed(c)
  \/ \E c \in ConnIds,
        m \in RemoteIdentifyMessages \cup
              {[type |-> "peerList", connectedPeers |-> [i \in D |-> a]] :
                 D \in SUBSET {3}, a \in {Null, Address}} :
       ReceiveMessage(c, m)
  \/ DisposePeers

SpecAccept == Started /\ [][NextAccept]_vars

\* Dialling over both transports.
NextDial ==
  \/ ConnectToWebSocketAddress(FALSE) /\ FewConnections
  \/ \E p \in PeerIds : ConnectToWebSocket(p) /\ FewConnections
  \/ \E p \in PeerIds : ConnectToWebRTC(p) /\ FewConnections
  \/ \E c \in ConnIds : ConnectionOpened(c)
  \/ \E c \in ConnIds : ConnectionClosed(c)
  \/ \E c \in ConnIds, m \in DialMessages : ReceiveMessage(c, m)

SpecDial == Init /\ [][NextDial]_vars

\* disconnect() between dials of one remote node.
NextDisconnect ==
  \/ ConnectToWebSocketAddress(FALSE) /\ FewConnections /\ FewPeers
  \/ \E p \in PeerIds : ConnectToWebSocket(p) /\ FewConnections
  \/ \E p \in PeerIds : ConnectToWebRTC(p) /\ FewConnections
  \/ \E c \in ConnIds : ConnectionOpened(c)
  \/ \E c \in ConnIds : ConnectionClosed(c)
  \/ \E c \in ConnIds : ReceiveMessage(c, Identify(1, "compatible", 32))
  \/ \E p \in PeerIds, r \in DisconnectReasons, u \in Times : Disconnect(p, r, u)
  \/ Tick

SpecDisconnect == Init /\ [][NextDisconnect]_vars

\* A node between identified peers: accepts, handshakes, relayed frames and
\* the request of node 3 that we stay away.
NextRelay ==
  \/ CreatePeerFromInboundWebSocketConnection /\ FewConnections
  \/ \E c \in ConnIds : ConnectionClosed(c)
  \/ \E c \in ConnIds,
        m \in RemoteIdentifyMessages \cup RelayMessages \cup
              {[DisconnectingToUs(MaxTime) EXCEPT !.sourceIdentity = 3]} :
       ReceiveMessage(c, m)

SpecRelay == Init /\ [][NextRelay]_vars

\* The signalling frames other nodes address to us through a connected peer.
SignalingMessages ==
  {[type |-> "signalRequest", sourceIdentity |-> s, destinationIdentity |-> localIdentity] :
     s \in Identities \ {localIdentity}}
  \cup {[type |-> "signal", sourceIdentity |-> 1, destinationIdentity |-> localIdentity,
         signal |-> "valid"]}

\* A node that is asked for WebRTC connections through the peers it accepted,
\* while time passes.
NextSignal ==
  \/ CreatePeerFromInboundWebSocketConnection /\ FewConnections
  \/ \E c \in ConnIds, m \in RemoteIdentifyMessages \cup SignalingMessages :
       ReceiveMessage(c, m)
  \/ Tick

SpecSignal == Init /\ [][NextSignal]_vars

\* The peer lists a connected peer may send.
PeerListMessages ==
  {[type |-> "peerList", connectedPeers |-> [i \in D |-> Address]] :
     D \in SUBSET Identities}

\* A node among peers that tell each other whom they are connected to.
NextPeerList ==
  \/ CreatePeerFromInboundWebSocketConnection /\ FewConnections
  \/ \E c \in ConnIds : ConnectionClosed(c)
  \/ \E c \in ConnIds,
        m \in RemoteIdentifyMessages \cup {WorkerIdentify(3)} \cup PeerListMessages :
       ReceiveMessage(c, m)
  \/ \E broadcastWorkers \in BOOLEAN : BroadcastPeerList(broadcastWorkers)
  \/ DisposePeers

SpecPeerList == Started /\ [][NextPeerList]_vars

\* The frames of a peer that passes or fails the handshake and signals for
\* a WebRTC connection.
UpgradeMessages ==
  {Identify(1, "compatible", 32), Identify(BadIdentity, "compatible", 32),
   Identify(1, "incompatible", 32), Identify(1, "compatible", 33),
   [type |-> "signal", sourceIdentity |-> 1, destinationIdentity |-> localIdentity,
    signal |-> "valid"]} \cup ApplicationMessages

\* A node whose accepted peers open WebRTC connections to it and send every
\* kind of frame during the handshake.
NextUpgrade ==
  \/ CreatePeerFromInboundWebSocketConnection /\ FewConnections
  \/ \E c \in ConnIds : ConnectionOpened(c)
  \/ \E c \in ConnIds : SignalEmitted(c)
  \/ \E c \in ConnIds, m \in UpgradeMessages : ReceiveMessage(c, m)

SpecUpgrade == Init /\ [][NextUpgrade]_vars

\* The frames of a node that identifies as 1 and lists node 3 as its
\* neighbour.
SweepMessages ==
  {Identify(1, "compatible", 32),
   [type |-> "peerList", connectedPeers |-> [i \in {3} |-> Address]]}

\* A node that dials the neighbours it is told about, over both transports,
\* which turn out to be the node it is connected to, while the disposal
\* sweep runs.
NextSweep ==
  \/ CreatePeerFromInboundWebSocketConnection /\ FewConnections
  \/ \E p \in PeerIds : ConnectToWebSocket(p) /\ FewConnections
  \/ \E p \in PeerIds : ConnectToWebRTC(p) /\ FewConnections
  \/ \E c \in ConnIds : ConnectionOpened(c)
  \/ \E c \in ConnIds : ConnectionClosed(c)
  \/ \E c \in ConnIds, m \in SweepMessages : ReceiveMessage(c, m)
  \/ DisposePeers

SpecSweep == Started /\ [][NextSweep]_vars

\* A node that dials the neighbour it is told about while that neighbour
\* also connects to it, and the disposal sweep runs.
NextGraph ==
  \/ CreatePeerFromInboundWebSocketConnection /\ FewConnections
  \/ \E p \in PeerIds : ConnectToWebSocket(p) /\ FewConnections
  \/ \E c \in ConnIds : ConnectionOpened(c)
  \/ \E c \in ConnIds : ConnectionClosed(c)
  \/ \E c \in ConnIds, m \in SweepMessages \cup {Identify(3, "compatible", 32)} :
       ReceiveMessage(c, m)
  \/ DisposePeers

SpecGraph == Started /\ [][NextGraph]_vars

\* A node that dials a whitelisted address, opens a WebRTC connection to the
\* node that answers, loses connections and dials again.
NextReturn ==
  \/ ConnectToWebSocketAddress(TRUE) /\ FewConnections /\ FewPeers
  \/ \E p \in PeerIds : ConnectToWebSocket(p) /\ FewConnections
  \/ \E p \in PeerIds : ConnectToWebRTC(p) /\ FewConnections
  \/ \E c \in ConnIds : ConnectionOpened(c)
  \/ \E c \in ConnIds : SignalEmitted(c)
  \/ \E c \in ConnIds : ConnectionClosed(c)
  \/ \E c \in ConnIds : ReceiveMessage(c, Identify(3, "compatible", 32))

SpecReturn == Init /\ [][NextReturn]_vars

\* A node that accepts peers, opens WebRTC connections to the nodes they
\* signal for, and is sent signalling data of node 3 that it can or cannot
\* read.
NextBroker ==
  \/ CreatePeerFromInboundWebSocketConnection /\ FewConnections /\ FewPeers
  \/ \E p \in PeerIds : ConnectToWebRTC(p) /\ FewConnections
  \/ \E c \in ConnIds : ConnectionOpened(c)
  \/ \E c \in ConnIds : SignalEmitted(c)
  \/ \E c \in ConnIds : ConnectionClosed(c)
  \/ \E c \in ConnIds,
        m \in {Identify(1, "compatible", 32), Identify(3, "compatible", 32)} \cup
              {x \in SignalMessages :
                 x.sourceIdentity = 3 /\ x.destinationIdentity = localIdentity} :
       ReceiveMessage(c, m) /\ FewPeers

SpecBroker == Init /\ [][NextBroker]_vars

\* A node that opens WebRTC connections to the peers it accepted and to the
\* peers they relay for, and is sent every signalling frame.
NextAssisted ==
  \/ CreatePeerFromInboundWebSocketConnection /\ FewConnections /\ FewPeers
  \/ \E p \in PeerIds : ConnectToWebRTC(p) /\ FewConnections
  \/ \E c \in ConnIds : ConnectionClosed(c)
  \/ \E c \in ConnIds, m \in RemoteIdentifyMessages : ReceiveMessage(c, m)
  \/ \E c \in ConnIds,
        m \in {x \in SignalRequestMessages \cup SignalMessages :
                 /\ x.destinationIdentity = localIdentity
                 /\ x.type = "signal" => x.signal = "valid"} :
       ReceiveMessage(c, m) /\ FewConnections /\ FewPeers

SpecAssisted == Init /\ [][NextAssisted]_vars

\* A node that is started and stopped while it accepts peers.
NextLifecycle ==
  \/ CreatePeerFromInboundWebSocketConnection /\ FewConnections
  \/ \E c \in ConnIds, m \in RemoteIdentifyMessages : ReceiveMessage(c, m)
  \/ Start
  \/ Stop
  \/ \E broadcastWorkers \in BOOLEAN : BroadcastPeerList(broadcastWorkers)
  \/ DisposePeers

SpecLifecycle == Init /\ [][NextLifecycle]_vars

TypeOK ==
  /\ timers.live \subseteq 1..MaxIntervals
  /\ peers \subseteq PeerIds
  /\ \A i \in Identities : identifiedPeers[i] \in PeerIds \cup {Null}
  /\ ~fatal

\* ------------------------------------------------------------------- claims
\* C1: after every handled event, every entry of identifiedPeers maps an
\* identity to a peer record whose own identity is that identity, and no peer
\* record is stored under two different identities.
C1_IdentifiedPeersKeyedByIdentity ==
  /\ \A i \in Identities :
       identifiedPeers[i] # Null => peer[identifiedPeers[i]].identity = i
  /\ \A i, j \in Identities :
       identifiedPeers[i] # Null /\ identifiedPeers[i] = identifiedPeers[j] => i = j

\* Both remote identities are in the map after a frame changed it.
C1_Witness ==
  /\ last.op = "message"
  /\ identifiedPeers[1] # Null
  /\ identifiedPeers[3] # Null
  /\ identifiedPeers[1] # identifiedPeers[3]

\* C2: when a connection held by peer record P1 completes a handshake with an
\* identity A for which a different record P2 is already in identifiedPeers,
\* then afterwards identifiedPeers[A] is still P2, the CONNECTED connection is
\* held by P2, and P1 is DISCONNECTED and out of the peers list no later than
\* the next disposal sweep.
C2_MergeKeepsIncumbent ==
  [][ (/\ last'.op = "message"
       /\ last'.msg.type = "identity"
       /\ isIdentity(last'.msg.identity)
       /\ identifiedPeers[last'.msg.identity] # Null
       /\ identifiedPeers[last'.msg.identity] # last'.peer
       /\ conn[last'.conn].state = "WAITING_FOR_IDENTITY"
       /\ conn'[last'.conn].state = "CONNECTED")
      => (/\ identifiedPeers'[last'.msg.identity] = identifiedPeers[last'.msg.identity]
          /\ last'.conn \in {peer'[identifiedPeers[last'.msg.identity]].ws,
                             peer'[identifiedPeers[last'.msg.identity]].rtc}
          /\ peer'[last'.peer].state = "DISCONNECTED"
          /\ last'.peer \notin disposePeers(Cur').peers) ]_vars

\* C3: when a WebSocket connection receives a valid Identify for an identity
\* whose peer is CONNECTED with another WebSocket connection, then, the two
\* connections being of opposite directions, exactly one of them is closed and
\* the survivor is the one dialled by the side with the lower identity; the
\* two being of the same direction, the new connection is closed and the
\* incumbent stays CONNECTED.
C3_DuplicateArbitration ==
  [][ (/\ last'.op = "message"
       /\ last'.msg \in RemoteIdentifyMessages
       /\ conn[last'.conn].type = WebSocket
       /\ conn[last'.conn].state = "WAITING_FOR_IDENTITY"
       /\ identifiedPeers[last'.msg.identity] # Null
       /\ peer[identifiedPeers[last'.msg.identity]].state = "CONNECTED"
       /\ peer[identifiedPeers[last'.msg.identity]].ws \notin {Null, last'.conn}
       /\ conn[peer[identifiedPeers[last'.msg.identity]].ws].state = "CONNECTED")
      => LET new == last'.conn
             old == peer[identifiedPeers[last'.msg.identity]].ws
             kept == IF conn[new].direction = conn[old].direction THEN old
                     ELSE IF localIdentity < last'.msg.identity
                       THEN (IF conn[new].direction = Outbound THEN new ELSE old)
                       ELSE (IF conn[new].direction = Inbound THEN new ELSE old)
             closed == IF kept = new THEN old ELSE new
         IN  /\ conn'[closed].state = "DISCONNECTED"
             /\ conn'[kept].state # "DISCONNECTED"
             /\ kept = old => conn'[old].state = "CONNECTED" ]_vars

\* C4: when a connection in WAITING_FOR_IDENTITY, inbound or outbound,
\* receives an Identify whose identity is the local identity, the connection
\* is closed without becoming CONNECTED, the peer's address is cleared, the
\* peer's retry state for that kind of connection is marked neverRetry, and
\* the peer record is removed from the peers list.
C4_SelfIdentityDisposesPeer ==
  [][ (/\ last'.op = "message"
       /\ last'.msg.type = "identity"
       /\ last'.msg.identity = localIdentity
       /\ last'.msg.version = "compatible"
       /\ last'.msg.nameLen <= 32
       /\ conn[last'.conn].state = "WAITING_FOR_IDENTITY")
      => (/\ conn'[last'.conn].state = "DISCONNECTED"
          /\ peer'[last'.peer].address = Null
          /\ <<conn[last'.conn].type, conn[last'.conn].direction>>
               \in peer'[last'.peer].neverRetry
          /\ last'.peer \notin peers') ]_vars

\* C9: onMessage is emitted only for a frame that is not an overlay-control
\* frame, received from a peer whose identity is known, on a connection in
\* state CONNECTED; and such a frame from a peer with no identity is not
\* emitted and closes that peer.
C9_OnMessageOnlyAfterHandshake ==
  [][ /\ (\E k \in DOMAIN emitted' : emitted'[k].event = "onMessage")
         => (/\ last'.op = "message"
             /\ last'.msg.type \notin {"identity", "disconnecting", "signalRequest",
                                       "signal", "peerList"}
             /\ peer[last'.peer].identity # Null
             /\ conn[last'.conn].state = "CONNECTED"
             /\ emitted' = <<[event |-> "onMessage", peer |-> last'.peer,
                              message |-> last'.msg]>>)
      /\ (/\ last'.op = "message"
          /\ last'.msg.type = "application"
          /\ peer[last'.peer].identity = Null)
         => (/\ \A k \in DOMAIN emitted' : emitted'[k].event # "onMessage"
             /\ peer'[last'.peer].state = "DISCONNECTED"
             /\ conn'[last'.conn].state = "DISCONNECTED") ]_vars

\* An application frame was handed to onMessage.
C9_Witness ==
  /\ last.op = "message"
  /\ last.msg.type = "application"
  /\ \E k \in DOMAIN emitted : emitted[k].event = "onMessage"

\* The admission conditions of a dial of peer p over the transport with slot
\* `slot` and retry key `key`, read in the state the call starts from;
\* `reachable` is the transport's own precondition.
DialAdmitted(p, slot, key, reachable) ==
  /\ \/ peer[p].state # "DISCONNECTED"
     \/ Cardinality({q \in peers : peer[q].state # "DISCONNECTED"}) < targetPeers
  /\ \/ peer[p].peerRequestedDisconnectUntil = NoTime
     \/ now >= peer[p].peerRequestedDisconnectUntil
  /\ slot = Null
  /\ key \notin peer[p].neverRetry
  /\ now >= peer[p].cooldownUntil[key]
  /\ reachable # Null

DialAdmittedWebSocket(p) ==
  DialAdmitted(p, peer[p].ws, <<WebSocket, Outbound>>, peer[p].address)

DialAdmittedWebRtc(p) ==
  DialAdmitted(p, peer[p].rtc, <<WebRtc, Outbound>>, peer[p].identity)

\* C5: connectToWebSocket(peer) and connectToWebRTC(peer) open a connection
\* only if the peer is not DISCONNECTED or fewer than targetPeers peers have a
\* connection, no peer-requested disconnect window is active, the slot of the
\* transport is empty, the outbound retry state can connect, and the peer has
\* an address (WebSocket) or an identity (WebRTC); otherwise the call returns
\* false and leaves both connection slots of the peer unchanged.
C5_DialAdmission ==
  [][ /\ last'.op = "connectToWebSocket"
         => /\ (last'.ret \/ peer'[last'.peer].ws # peer[last'.peer].ws)
                 => DialAdmittedWebSocket(last'.peer)
            /\ ~DialAdmittedWebSocket(last'.peer)
                 => /\ ~last'.ret
                    /\ peer'[last'.peer].ws = peer[last'.peer].ws
                    /\ peer'[last'.peer].rtc = peer[last'.peer].rtc
      /\ last'.op = "connectToWebRTC"
         => /\ (last'.ret \/ peer'[last'.peer].rtc # peer[last'.peer].rtc)
                 => DialAdmittedWebRtc(last'.peer)
            /\ ~DialAdmittedWebRtc(last'.peer)
                 => /\ ~last'.ret
                    /\ peer'[last'.peer].ws = peer[last'.peer].ws
                    /\ peer'[last'.peer].rtc = peer[last'.peer].rtc ]_vars

\* A WebRTC dial was admitted and installed a connection in the peer's slot.
C5_Witness ==
  /\ last.op = "connectToWebRTC"
  /\ last.ret
  /\ peer[last.peer].rtc # Null
  /\ conn[peer[last.peer].rtc].state \in {"CONNECTING", "REQUEST_SIGNALING"}

\* Our own disconnect request for peer p stands in the state a call starts from.
LocalWindowAt(p) ==
  /\ peer[p].localRequestedDisconnectUntil # NoTime
  /\ now < peer[p].localRequestedDisconnectUntil

SlotsUnchanged(p) ==
  /\ peer'[p].ws = peer[p].ws
  /\ peer'[p].rtc = peer[p].rtc

C7_DisconnectEffects ==
  [][ last'.op = "disconnect"
      => LET p == last'.peer
             live == {c \in {peer[p].ws, peer[p].rtc} \ {Null} :
                        conn[c].state \in {"WAITING_FOR_IDENTITY", "CONNECTED"}}
         IN  /\ peer'[p].localRequestedDisconnectReason = last'.reason
             /\ peer'[p].localRequestedDisconnectUntil = last'.until
             /\ \A c \in ConnIds :
                  Cardinality({k \in DOMAIN sent' : sent'[k].conn = c})
                    = IF c \in live THEN 1 ELSE 0
             /\ \A k \in DOMAIN sent' :
                  /\ sent'[k].msg.type = "disconnecting"
                  /\ sent'[k].msg.reason = last'.reason
                  /\ sent'[k].msg.disconnectUntil = last'.until
             /\ peer'[p].state = "DISCONNECTED"
             /\ peer'[p].ws = Null
             /\ peer'[p].rtc = Null ]_vars

\* disconnect was called on a peer with a connection that could transmit,
\* and the notice went out on it.
C7_Witness ==
  /\ last.op = "disconnect"
  /\ Len(sent) = 1
  /\ sent[1].msg.type = "disconnecting"
  /\ peer[last.peer].state = "DISCONNECTED"

\* The frame of the last event is a relayed kind that names another node as
\* its destination.
RelayedKinds == {"disconnecting", "signalRequest", "signal"}

\* Nothing but the record of the event changed.
ManagerUnchanged ==
  /\ peers' = Cur.peers
  /\ identifiedPeers' = Cur.identifiedPeers
  /\ peer' = Cur.peer
  /\ conn' = Cur.conn

\* C8: a Disconnecting, SignalRequest or Signal message whose destination is
\* not the local identity is forwarded, to the identifiedPeers entry of its
\* destination and to no one else, if and only if its sourceIdentity is the
\* identity of the peer it was received from and its destination is a key of
\* identifiedPeers; in every other case nothing is sent and no peer or
\* connection state changes.
C8_RelayIffOriginAndKnownDestination ==
  [][ (/\ last'.op = "message"
       /\ last'.msg.type \in RelayedKinds
       /\ last'.msg.destinationIdentity # localIdentity)
      => LET m == last'.msg
             d == m.destinationIdentity
             forwarded ==
               /\ m.sourceIdentity = peer[last'.peer].identity
               /\ d \in Identities
               /\ identifiedPeers[d] # Null
         IN  IF forwarded
               THEN /\ Len(sent') = 1
                    /\ sent'[1].msg = m
                    /\ sent'[1].conn \in {peer[identifiedPeers[d]].ws,
                                          peer[identifiedPeers[d]].rtc} \ {Null}
               ELSE sent' = <<>> /\ ManagerUnchanged ]_vars

\* C8 as the code has it: such a message, received on a CONNECTED connection
\* and naming another node as its destination, is forwarded, on a CONNECTED
\* connection of the identifiedPeers entry of its destination and to no one
\* else, if and only if its sourceIdentity is the identity of the peer it was
\* received from, its destination is a key of identifiedPeers whose peer is
\* CONNECTED, and, for a SignalRequest, the source is not the side that
\* initiates WebRTC towards the destination; otherwise nothing is sent; and in
\* both cases no peer or connection state changes.
C8_RelayRule ==
  [][ (/\ last'.op = "message"
       /\ last'.msg.type \in RelayedKinds
       /\ last'.msg.destinationIdentity \in Identities \ {localIdentity}
       /\ conn[last'.conn].state = "CONNECTED")
      => LET m == last'.msg
             d == m.destinationIdentity
             forwarded ==
               /\ m.sourceIdentity = peer[last'.peer].identity
               /\ identifiedPeers[d] # Null
               /\ peer[identifiedPeers[d]].state = "CONNECTED"
               /\ m.type = "signalRequest" => ~canInitiateWebRTC(m.sourceIdentity, d)
         IN  /\ IF forwarded
                  THEN /\ Len(sent') = 1
                       /\ sent'[1].msg = m
                       /\ sent'[1].conn \in {peer[identifiedPeers[d]].ws,
                                             peer[identifiedPeers[d]].rtc} \ {Null}
                       /\ conn[sent'[1].conn].state = "CONNECTED"
                  ELSE sent' = <<>>
             /\ ManagerUnchanged ]_vars

\* A Signal from its origin was forwarded to another connected peer.
C8_Witness ==
  /\ last.op = "message"
  /\ last.msg.type = "signal"
  /\ last.msg.sourceIdentity = peer[last.peer].identity
  /\ last.msg.destinationIdentity # last.msg.sourceIdentity
  /\ Len(sent) = 1
  /\ sent[1].msg = last.msg
  /\ sent[1].conn # last.conn

\* C10: after any sequence of inbound accepts, outbound dials and received
\* messages, the number of peers in CONNECTING or CONNECTED state never
\* exceeds maxPeers.
C10_AtMostMaxPeersConnectingOrConnected ==
  Cardinality({p \in peers : peer[p].state \in {"CONNECTING", "CONNECTED"}}) <= maxPeers

\* The last frame is a SignalRequest for us that meets the congestion test:
\* maxPeers or more peers have a connection and the source is not CONNECTED.
CongestedRequest ==
  /\ last'.op = "message"
  /\ last'.msg.type = "signalRequest"
  /\ last'.msg.destinationIdentity = localIdentity
  /\ conn[last'.conn].state = "CONNECTED"
  /\ Cardinality({q \in peers : peer[q].state # "DISCONNECTED"}) >= maxPeers
  /\ \/ identifiedPeers[last'.msg.sourceIdentity] = Null
     \/ peer[identifiedPeers[last'.msg.sourceIdentity]].state # "CONNECTED"

\* One Disconnecting(Congested), for the source, went out on a connection of
\* the peer the request came from, and nothing else happened.
CongestedReply ==
  /\ Len(sent') = 1
  /\ sent'[1].conn \in {peer[last'.peer].ws, peer[last'.peer].rtc} \ {Null}
  /\ sent'[1].msg.type = "disconnecting"
  /\ sent'[1].msg.reason = "Congested"
  /\ sent'[1].msg.sourceIdentity = localIdentity
  /\ sent'[1].msg.destinationIdentity = last'.msg.sourceIdentity
  /\ ManagerUnchanged

\* C11: when a SignalRequest addressed to us arrives while the number of
\* peers with a connection is >= maxPeers and its source is not a CONNECTED
\* peer, a Disconnecting with reason Congested, addressed to the source, is
\* sent back to the relaying sender, no peer record is created, no knownPeers
\* edge is added and no WebRTC connection is opened.
C11_CongestedRequestRejected ==
  [][ CongestedRequest => CongestedReply ]_vars

\* C11 as the code has it: the same, for a request whose source is not the
\* side that initiates WebRTC towards us; a request whose source should
\* have initiated is dropped before the congestion test, without a reply.
C11_CongestedRequestRejectedUnlessSourceInitiates ==
  [][ CongestedRequest
      => IF canInitiateWebRTC(last'.msg.sourceIdentity, localIdentity)
           THEN sent' = <<>> /\ ManagerUnchanged
           ELSE CongestedReply ]_vars

\* A request was turned away for congestion.
C11_Witness ==
  /\ last.op = "message"
  /\ last.msg.type = "signalRequest"
  /\ Len(sent) = 1
  /\ sent[1].msg.type = "disconnecting"
  /\ sent[1].msg.reason = "Congested"
  /\ Cardinality({q \in peers : peer[q].state # "DISCONNECTED"}) >= maxPeers

\* C12: the Disconnecting sent on congestion rejection carries a
\* disconnectUntil that is the time of sending plus five minutes.
C12_CongestedUntilIsAbsolute ==
  [][ (last'.op = "message" /\ last'.msg.type \in {"signalRequest", "signal"})
      => \A k \in DOMAIN sent' :
           (/\ sent'[k].msg.type = "disconnecting"
            /\ sent'[k].msg.reason = "Congested")
           => sent'[k].msg.disconnectUntil = now + 1000 * 60 * 5 ]_vars

\* The connections of the last event's sends that belong to peer q.
SentTo(q) == {k \in DOMAIN sent' : sent'[k].conn \in {peer[q].ws, peer[q].rtc} \ {Null}}

\* The identities of the CONNECTED identified peers a broadcast lists, workers
\* left out unless broadcastWorkers is set.
BroadcastEntries ==
  {peer[q].identity :
     q \in {r \in PeerIds : /\ \E i \in Identities : identifiedPeers[i] = r
                            /\ peer[r].state = "CONNECTED"
                            /\ (peer[r].isWorker => last'.broadcastWorkers)}}

\* Exactly the CONNECTED peers are sent one frame each.
BroadcastRecipients ==
  /\ \A q \in peers :
       Cardinality(SentTo(q)) = IF peer[q].state = "CONNECTED" THEN 1 ELSE 0
  /\ \A k \in DOMAIN sent' : \E q \in peers : k \in SentTo(q)
  /\ \A k \in DOMAIN sent' :
       /\ sent'[k].msg.type = "peerList"
       /\ localIdentity \notin DOMAIN sent'[k].msg.connectedPeers

\* C13: each periodic peer-list broadcast sends to every CONNECTED peer R,
\* and to no other peer, a PeerList whose entries are exactly the CONNECTED
\* identified peers other than R (worker peers left out unless
\* broadcastWorkers is set) and which never contains the local identity.
C13_BroadcastListsTheOtherPeers ==
  [][ last'.op = "broadcastPeerList"
      => /\ BroadcastRecipients
         /\ \A q \in peers : \A k \in SentTo(q) :
              DOMAIN sent'[k].msg.connectedPeers = BroadcastEntries \ {peer[q].identity} ]_vars

\* C13 as the code has it: every CONNECTED peer, and no other peer, is sent
\* the same PeerList, whose entries are exactly the CONNECTED identified
\* peers, the recipient among them (worker peers left out unless
\* broadcastWorkers is set); it never contains the local identity.
C13_BroadcastListsEveryPeer ==
  [][ last'.op = "broadcastPeerList"
      => /\ BroadcastRecipients
         /\ \A k \in DOMAIN sent' :
              DOMAIN sent'[k].msg.connectedPeers = BroadcastEntries ]_vars

\* A broadcast went to two connected peers, one of them a worker that the
\* list leaves out.
C13_Witness ==
  /\ last.op = "broadcastPeerList"
  /\ ~last.broadcastWorkers
  /\ Len(sent) = 2
  /\ Cardinality(DOMAIN sent[1].msg.connectedPeers) = 1

\* C14: handling the same PeerList from the same CONNECTED sender twice in a
\* row leaves every peer's knownPeers after the second handling equal to
\* what it was after the first.
C14_PeerListIdempotent ==
  [][ (/\ last.op = "message"
       /\ last.msg.type = "peerList"
       /\ last'.op = "message"
       /\ last'.msg = last.msg
       /\ last'.conn = last.conn
       /\ last'.peer = last.peer
       /\ conn[last.conn].state = "CONNECTED")
      => \A p \in PeerIds : peer'[p].knownPeers = peer[p].knownPeers ]_vars

\* A peer list that names another node was handled a second time, the
\* sender's edge to that node being in place.
C14_Witness ==
  /\ last.op = "message"
  /\ last.msg.type = "peerList"
  /\ last.again
  /\ peer[last.peer].state = "CONNECTED"
  /\ \E i \in DOMAIN last.msg.connectedPeers : peer[last.peer].knownPeers[i] # Null

\* C15: a disposed peer record is neither in peers nor a value of
\* identifiedPeers, right after the disposal and for as long as the record
\* exists.
C15_DisposedPeerForgotten ==
  \A p \in PeerIds :
    peer[p].disposed
      => /\ p \notin peers
         /\ \A i \in Identities : identifiedPeers[i] # p

\* A handshake disposed a record whose identity another record now has in
\* identifiedPeers.
C15_Witness ==
  /\ last.op = "message"
  /\ \E p \in PeerIds :
       /\ peer[p].disposed
       /\ peer[p].identity # Null
       /\ identifiedPeers[peer[p].identity] \in peers

\* The last frame was an Identify that completed the handshake of its
\* connection.
HandshakeCompleted ==
  /\ last'.op = "message"
  /\ last'.msg.type = "identity"
  /\ conn[last'.conn].state = "WAITING_FOR_IDENTITY"
  /\ conn'[last'.conn].state = "CONNECTED"

\* C16: whenever the handshake sets a connection CONNECTED, the peer that
\* holds the connection after the event has the identity of the Identify
\* and identifiedPeers maps that identity to that record.
C16_ConnectedHolderIsIdentified ==
  [][ HandshakeCompleted
      => \E p \in peers' :
           /\ last'.conn \in {peer'[p].ws, peer'[p].rtc}
           /\ \A q \in PeerIds \ {p} : last'.conn \notin {peer'[q].ws, peer'[q].rtc}
           /\ peer'[p].identity = last'.msg.identity
           /\ identifiedPeers'[last'.msg.identity] = p ]_vars

\* A handshake completed on a connection that moved to the record of the
\* identity during the event.
C16_Witness ==
  /\ last.op = "message"
  /\ last.msg.type = "identity"
  /\ conn[last.conn].state = "CONNECTED"
  /\ last.peer \notin peers
  /\ identifiedPeers[last.msg.identity] # last.peer
  /\ last.conn \in {peer[identifiedPeers[last.msg.identity]].ws,
                    peer[identifiedPeers[last.msg.identity]].rtc}

\* The last event was one of the two periodic tasks.
PeriodicTaskFired == last'.op \in {"broadcastPeerList", "disposePeers"}

\* C17: after stop() every known peer is DISCONNECTED with
\* localRequestedDisconnectReason = ShuttingDown, and whatever calls of
\* start() and stop() came before, no periodic peer-list broadcast or
\* disposal sweep fires until start() is called again.
C17_StopQuiesces ==
  [][ /\ last'.op = "stop"
         => \A p \in peers' :
              /\ peer'[p].state = "DISCONNECTED"
              /\ peer'[p].localRequestedDisconnectReason = "ShuttingDown"
      /\ PeriodicTaskFired => timers.started ]_vars

\* How many live intervals run each periodic task.
TasksScheduled(T) ==
  [callback \in {"broadcastPeerList", "disposePeers"} |->
     Cardinality({id \in T.live : IntervalCallback(id) = callback})]

\* The peers list, identifiedPeers, the peer records with their disconnect
\* windows and connection slots, and the connections are the same.
SameManager(S1, S2) ==
  /\ S1.peers = S2.peers
  /\ S1.identifiedPeers = S2.identifiedPeers
  /\ S1.peer = S2.peer
  /\ S1.conn = S2.conn

\* start(); stop(); start() and a single start() schedule the same tasks.
RestartSchedulesTheSame ==
  TasksScheduled(startTimers(stopTimers(startTimers(timers))))
    = TasksScheduled(startTimers(timers))

\* C18: on a manager that was never started, whatever peers it has,
\* start(); stop(); start() leaves the periodic tasks, the peers list,
\* identifiedPeers, the disconnect windows and the connection slots as a
\* single start() leaves them.
C18_RestartEqualsStart ==
  timers = NoTimers
    => /\ RestartSchedulesTheSame
       /\ SameManager(stop(Cur), Cur)

\* C18 as the code has it: the periodic tasks are scheduled as by a single
\* start(); the peers are as stop() leaves them, none added, every one
\* DISCONNECTED with all its connections closed and our disconnect request
\* ShuttingDown with time 0; a manager without peers is left as a single
\* start() leaves it.
C18_RestartKeepsTasksAndDisconnectsPeers ==
  timers = NoTimers
    => /\ RestartSchedulesTheSame
       /\ stop(Cur).peers \subseteq Cur.peers
       /\ \A p \in stop(Cur).peers :
            /\ stop(Cur).peer[p].state = "DISCONNECTED"
            /\ stop(Cur).peer[p].localRequestedDisconnectReason = "ShuttingDown"
            /\ stop(Cur).peer[p].localRequestedDisconnectUntil = 0
       /\ \A c \in ConnIds : stop(Cur).conn[c].state \in {"none", "DISCONNECTED"}
       /\ Cur.peers = {} => SameManager(stop(Cur), Cur)

\* start(), stop() and start() were called on a manager with peers: the
\* intervals of the second start() are the live ones and the peers are
\* disconnected.
C18_Witness ==
  /\ last.op = "start"
  /\ timers.created = 4
  /\ timers.live = {3, 4}
  /\ peers # {}
  /\ \A p \in peers : /\ peer[p].state = "DISCONNECTED"
                      /\ peer[p].localRequestedDisconnectReason = "ShuttingDown"

\* The frame fails the handshake of a connection that waits for the
\* identity: it is no Identify, or its identity, version or name is refused.
FailsHandshake(m) ==
  IF m.type = "identity"
    THEN \/ ~isIdentity(m.identity)
         \/ m.version # "compatible"
         \/ m.nameLen > 32
    ELSE m.type # "disconnecting"

\* The connections of peer p other than c.
OtherConnections(p, c) == ({peer[p].ws, peer[p].rtc} \ {Null}) \ {c}

\* C19: when the handshake on one connection of a peer fails, only that
\* connection becomes DISCONNECTED: the other connection of the peer, when
\* it is CONNECTED, keeps its state and the peer stays CONNECTED.
C19_HandshakeFailureClosesOneConnection ==
  [][ (/\ last'.op = "message"
       /\ conn[last'.conn].state = "WAITING_FOR_IDENTITY"
       /\ FailsHandshake(last'.msg))
      => /\ conn'[last'.conn].state = "DISCONNECTED"
         /\ \A d \in OtherConnections(last'.peer, last'.conn) :
              conn[d].state = "CONNECTED"
                => /\ conn'[d].state = "CONNECTED"
                   /\ peer'[last'.peer].state = "CONNECTED" ]_vars

\* C20: for each peer, every onStateChanged subscriber is called for the
\* state transitions of the peer in the order in which they were issued,
\* also when a transition is issued inside another subscriber's handling of
\* an earlier one.
C20_NotifiedInIssuanceOrder ==
  \A j, k \in DOMAIN notified :
    (/\ j < k
     /\ notified[j].peer = notified[k].peer
     /\ notified[j].subscriber = notified[k].subscriber)
    => notified[j].transition < notified[k].transition

\* The transition table of the connection states.
InTransitionTable(from, to) ==
  \/ from = "CONNECTING" /\ to \in {"WAITING_FOR_IDENTITY", "SIGNALING",
                                    "REQUEST_SIGNALING", "DISCONNECTED"}
  \/ from = "REQUEST_SIGNALING" /\ to \in {"SIGNALING", "DISCONNECTED"}
  \/ from = "SIGNALING" /\ to \in {"WAITING_FOR_IDENTITY", "DISCONNECTED"}
  \/ from = "WAITING_FOR_IDENTITY" /\ to \in {"CONNECTED", "DISCONNECTED"}
  \/ from = "CONNECTED" /\ to = "DISCONNECTED"

\* The last event was an Identify on connection c that passes every check of
\* the handshake.
IdentifyPassedOn(c) ==
  /\ last'.op = "message"
  /\ last'.conn = c
  /\ last'.msg.type = "identity"
  /\ ~FailsHandshake(last'.msg)
  /\ last'.msg.identity # localIdentity

\* C21: every state change of every connection follows the transition
\* table; no connection leaves DISCONNECTED, and a connection becomes
\* CONNECTED only from WAITING_FOR_IDENTITY by an Identify frame that passed
\* every handshake check.
C21_TransitionsFollowTable ==
  [][ /\ ~fatal'
      /\ \A c \in ConnIds :
           (Cur.conn[c].type # "none" /\ conn'[c].state # Cur.conn[c].state)
             => /\ InTransitionTable(Cur.conn[c].state, conn'[c].state)
                /\ conn'[c].state = "CONNECTED" => IdentifyPassedOn(c)
      /\ \A c \in ConnIds :
           (Cur.conn[c].type = "none" /\ conn'[c].type # "none")
             => conn'[c].state # "CONNECTED" ]_vars

\* A handshake made a connection CONNECTED while another connection of the
\* model is signalling for WebRTC.
C21_Witness ==
  /\ last.op = "message"
  /\ last.msg.type = "identity"
  /\ conn[last.conn].state = "CONNECTED"
  /\ \E c \in ConnIds : conn[c].type = WebRtc /\ conn[c].state = "SIGNALING"

\* The three conditions of disposal hold of record p in manager state S.
Disposable(S, p) ==
  /\ S.peer[p].state = "DISCONNECTED"
  /\ \A i \in Identities :
       S.peer[p].knownPeers[i] # Null
         => S.peer[S.peer[p].knownPeers[i]].state # "CONNECTED"
  /\ <<WebSocket, Outbound>> \in S.peer[p].neverRetry

\* Record p left the peers list or identifiedPeers during the last event.
Removed(p) ==
  \/ p \in Cur.peers /\ p \notin peers'
  \/ \E i \in Identities : Cur.identifiedPeers[i] = p /\ identifiedPeers'[i] # p

\* C22: a peer record leaves the peers list or identifiedPeers only by a
\* disposal, whose record is DISCONNECTED with its direct-outbound retry
\* marked neverRetry and, when the disposal sweep removed it, met all three
\* conditions when the sweep began; and after a disposal sweep no peer of
\* the peers list meets all three conditions.
C22_RemovedOnlyWhenDisposable ==
  [][ /\ \A p \in PeerIds :
           Removed(p)
             => /\ peer'[p].disposed
                /\ peer'[p].state = "DISCONNECTED"
                /\ <<WebSocket, Outbound>> \in peer'[p].neverRetry
                /\ last'.op = "disposePeers" => Disposable(Cur, p)
      /\ last'.op = "disposePeers"
           => \A p \in peers' :
                ~Disposable([peer |-> peer'], p) ]_vars

\* The sweep removed a peer that has a neighbour, and left a peer in the
\* list.
C22_Witness ==
  /\ last.op = "disposePeers"
  /\ peers # {}
  /\ \E p \in PeerIds \ peers :
       /\ peer[p].disposed
       /\ \E q \in peers, i \in Identities : peer[q].knownPeers[i] = p

\* Each slot of each record holds a connection of its transport, and every
\* connection that is not DISCONNECTED is in the slot of exactly one record.
SlotsOwnConnections ==
  /\ \A p \in PeerIds :
       /\ peer'[p].ws # Null => conn'[peer'[p].ws].type = WebSocket
       /\ peer'[p].rtc # Null => conn'[peer'[p].rtc].type = WebRtc
  /\ \A c \in ConnIds :
       (conn'[c].type # "none" /\ conn'[c].state # "DISCONNECTED")
         => Cardinality({p \in PeerIds : c \in {peer'[p].ws, peer'[p].rtc}}) = 1

\* The connection a slot held before the event is closed when the slot holds
\* another connection after it.
DisplacedIsClosed(before, after) ==
  (before # Null /\ after # Null /\ after # before)
    => conn'[before].state = "DISCONNECTED"

\* C23: after every handled event each peer holds at most one connection per
\* transport, every connection that is not DISCONNECTED is held in the slot
\* of exactly one peer record, and a connection displaced from a slot by the
\* installation of another one ends DISCONNECTED.
C23_SlotsExclusive ==
  [][ /\ SlotsOwnConnections
      /\ \A p \in PeerIds :
           /\ DisplacedIsClosed(Cur.peer[p].ws, peer'[p].ws)
           /\ DisplacedIsClosed(Cur.peer[p].rtc, peer'[p].rtc) ]_vars

\* A handshake installed the connection of the frame in the occupied slot of
\* the record that has the identity, and the connection the slot held is
\* closed.
C23_Witness ==
  /\ last.op = "message"
  /\ last.msg.type = "identity"
  /\ conn[last.conn].state = "CONNECTED"
  /\ \E p \in peers \ {last.peer} :
       /\ peer[p].ws = last.conn
       /\ \E d \in ConnIds \ {last.conn} :
            /\ conn[d].type = WebSocket
            /\ conn[d].state = "DISCONNECTED"
            /\ Holders([peer |-> peer], d) = {}

\* An Identify that fails one of the three checks of the frame arrives on a
\* connection that waits for the identity.
RejectedIdentify ==
  /\ last'.op = "message"
  /\ last'.msg.type = "identity"
  /\ FailsHandshake(last'.msg)
  /\ Cur.conn[last'.conn].state = "WAITING_FOR_IDENTITY"

\* The retry state of peer p for the transport and direction of connection c
\* has one more failure, up to the ceiling of the back-off.
FailureRecorded(p, c) ==
  LET key == <<Cur.conn[c].type, Cur.conn[c].direction>>
  IN  IF Cur.peer[p].isWhitelisted
        THEN peer'[p].cooldownUntil[key] = now'
        ELSE /\ peer'[p].failures[key] = Min(Cur.peer[p].failures[key] + 1, BackoffCeiling)
             /\ peer'[p].cooldownUntil[key] = now' + peer'[p].failures[key]

\* C24: an Identify with a malformed identity, an incompatible version or a
\* name longer than 32 closes the connection, records a failed connection on
\* the retry state of the connection's transport and direction, leaves the
\* identity of the peer as it was and adds no entry to identifiedPeers; a
\* name of exactly 32 is not a reason to reject.
C24_RejectedIdentify ==
  [][ /\ RejectedIdentify
        => /\ conn'[last'.conn].state = "DISCONNECTED"
           /\ FailureRecorded(last'.peer, last'.conn)
           /\ peer'[last'.peer].identity = Cur.peer[last'.peer].identity
           /\ \A i \in Identities :
                identifiedPeers'[i] \in {Null, Cur.identifiedPeers[i]}
      /\ (/\ last'.op = "message"
          /\ last'.msg = Identify(1, "compatible", 32)
          /\ Cur.conn[last'.conn].state = "WAITING_FOR_IDENTITY"
          /\ Cur.identifiedPeers[1] = Null)
        => conn'[last'.conn].state = "CONNECTED" ]_vars

\* An Identify with a name of 33 was rejected on an accepted connection of a
\* peer that had no failure before: the failure is on the retry state of the
\* inbound WebSocket and the connection is closed.
C24_Witness ==
  /\ last.op = "message"
  /\ last.msg = Identify(1, "compatible", 33)
  /\ conn[last.conn].state = "DISCONNECTED"
  /\ conn[last.conn].direction = Inbound
  /\ ~peer[last.peer].isWhitelisted
  /\ peer[last.peer].identity = Null
  /\ peer[last.peer].failures[<<WebSocket, Inbound>>] = 1
  /\ peer[last.peer].failures[<<WebSocket, Outbound>>] = 0

\* A valid Identify of a remote identity arrives on a connection that waits
\* for it, and the peer record of that identity carries a disconnect request
\* of ours whose time is not over.
IdentifyDuringLocalWindow ==
  /\ last'.op = "message"
  /\ last'.msg.type = "identity"
  /\ ~FailsHandshake(last'.msg)
  /\ last'.msg.identity # localIdentity
  /\ Cur.conn[last'.conn].state = "WAITING_FOR_IDENTITY"
  /\ Cur.identifiedPeers[last'.msg.identity] # Null
  /\ LocalWindowOpen(Cur, Cur.identifiedPeers[last'.msg.identity])

\* The Disconnecting frame that repeats the request of peer record p.
RepeatedRequest(p, identity) ==
  [type |-> "disconnecting",
   sourceIdentity |-> localIdentity,
   destinationIdentity |-> identity,
   reason |-> Cur.peer[p].localRequestedDisconnectReason,
   disconnectUntil |-> Cur.peer[p].localRequestedDisconnectUntil]

\* C25: a valid Identify for an identity whose peer has a local-requested
\* disconnect window that is still open is answered on the connection with a
\* Disconnecting frame carrying the until value and the reason of the window,
\* and the connection is closed without becoming CONNECTED.
C25_IdentifyDuringLocalWindowTurnedAway ==
  [][ IdentifyDuringLocalWindow
        => /\ conn'[last'.conn].state = "DISCONNECTED"
           /\ \E k \in DOMAIN sent' :
                sent'[k] = [conn |-> last'.conn,
                            msg |-> RepeatedRequest(Cur.identifiedPeers[last'.msg.identity],
                                                    last'.msg.identity)]
           /\ ~\E k \in DOMAIN emitted' : emitted'[k].event = "onConnect" ]_vars

\* The Identify was turned away: the connection of the frame is closed and
\* the last frame sent on it is the repeated request with the time of the
\* window, which is not over.
C25_Witness ==
  /\ last.op = "message"
  /\ last.msg.type = "identity"
  /\ conn[last.conn].state = "DISCONNECTED"
  /\ Len(sent) > 0
  /\ sent[Len(sent)].conn = last.conn
  /\ sent[Len(sent)].msg.type = "disconnecting"
  /\ sent[Len(sent)].msg.disconnectUntil = MaxTime
  /\ now < MaxTime
  /\ identifiedPeers[last.msg.identity] # Null
  /\ peer[identifiedPeers[last.msg.identity]].localRequestedDisconnectUntil = MaxTime

\* C26: every message other than Identify that is received on a connection
\* in WAITING_FOR_IDENTITY closes that connection.
C26_UnexpectedFrameClosesConnection ==
  [][ (/\ last'.op = "message"
       /\ last'.msg.type # "identity"
       /\ Cur.conn[last'.conn].state = "WAITING_FOR_IDENTITY")
        => conn'[last'.conn].state = "DISCONNECTED" ]_vars

\* C27: an Identify received on a connection that is past
\* WAITING_FOR_IDENTITY is not emitted on onMessage and closes the connection
\* it arrived on.
C27_LateIdentifyClosesConnection ==
  [][ (/\ last'.op = "message"
       /\ last'.msg.type = "identity"
       /\ Cur.conn[last'.conn].state = "CONNECTED")
        => /\ \A k \in DOMAIN emitted' : emitted'[k].event # "onMessage"
           /\ conn'[last'.conn].state = "DISCONNECTED" ]_vars

\* Connection c is a WebRTC connection the event created.
CreatedAssisted(c) ==
  /\ Cur.conn[c].type = "none"
  /\ conn'[c].type = WebRtc

\* C28: every WebRTC connection the manager creates as initiator is on a
\* peer P with canInitiate(self, P), and every one it creates as
\* non-initiator is on a peer P with canInitiate(P, self), whether
\* connectToWebRTC, a SignalRequest or a Signal created it.
C28_InitiatorSideAgreed ==
  [][ \A c \in ConnIds : \A p \in PeerIds :
        (CreatedAssisted(c) /\ peer'[p].rtc = c)
          => /\ peer'[p].identity # Null
             /\ IF conn'[c].initiator
                  THEN canInitiateWebRTC(localIdentity, peer'[p].identity)
                  ELSE canInitiateWebRTC(peer'[p].identity, localIdentity) ]_vars

\* connectToWebRTC is called for a peer that passes the admission test and
\* has an identity, with the brokering peer last'.conn.
AssistedDialWithBroker ==
  /\ last'.op = "connectToWebRTC"
  /\ last'.conn # Null
  /\ canConnectToWebRTC(Cur, last'.peer)
  /\ Cur.peer[last'.peer].identity # Null

\* The SignalRequest frames the event sent.
SignalRequestsSent == {k \in DOMAIN sent' : sent'[k].msg.type = "signalRequest"}

\* The call installed a new WebRTC connection on the peer, brokered by the
\* brokering peer; as initiator in state st without any SignalRequest, or as
\* non-initiator in REQUEST_SIGNALING with one SignalRequest from us to the
\* peer, sent on a connection of the brokering peer.
AssistedDialOutcome(st) ==
  LET p == last'.peer
      c == peer'[p].rtc
      identity == Cur.peer[p].identity
  IN  /\ last'.ret
      /\ c # Null
      /\ CreatedAssisted(c)
      /\ conn'[c].broker = last'.conn
      /\ IF canInitiateWebRTC(localIdentity, identity)
           THEN /\ conn'[c].initiator
                /\ conn'[c].state = st
                /\ SignalRequestsSent = {}
           ELSE /\ ~conn'[c].initiator
                /\ conn'[c].state = "REQUEST_SIGNALING"
                /\ Cardinality(SignalRequestsSent) = 1
                /\ \A k \in SignalRequestsSent :
                     /\ sent'[k].msg = [type |-> "signalRequest",
                                        sourceIdentity |-> localIdentity,
                                        destinationIdentity |-> identity]
                     /\ sent'[k].conn \in {Cur.peer[last'.conn].ws, Cur.peer[last'.conn].rtc} \ {Null}

CanBroker(b, p) ==
  \/ b = p /\ Cur.peer[p].state = "CONNECTED"
  \/ /\ Cur.peer[b].state = "CONNECTED"
     /\ \E i \in Identities : Cur.peer[p].knownPeers[i] = b
     /\ Cur.peer[b].knownPeers[Cur.peer[p].identity] = p

\* connectToWebRTC is called for a peer that passes the admission test.
AssistedDialAdmitted ==
  /\ last'.op = "connectToWebRTC"
  /\ canConnectToWebRTC(Cur, last'.peer)

\* C30: the broker connectToWebRTC(P) uses is P itself when P is CONNECTED,
\* or a CONNECTED peer that is a known peer of P and knows P; when there is
\* no such peer the call returns false, opens no connection, records a
\* failed connection on the outbound WebRTC retry state of P and disposes P
\* when P can be disposed.
C30_BrokerChoice ==
  [][ AssistedDialAdmitted
        => LET p == last'.peer
               key == <<WebRtc, Outbound>>
           IN  IF \E b \in PeerIds : CanBroker(b, p)
                 THEN /\ last'.ret
                      /\ last'.conn # Null
                      /\ CanBroker(last'.conn, p)
                      /\ peer'[p].rtc # Null
                      /\ conn'[peer'[p].rtc].broker = last'.conn
                 ELSE /\ ~last'.ret
                      /\ last'.conn = Null
                      /\ conn' = Cur.conn
                      /\ peer'[p].failures[key] =
                           Min(Cur.peer[p].failures[key] + 1, BackoffCeiling)
                      /\ peer'[p].cooldownUntil[key] = now' + peer'[p].failures[key]
                      /\ (p \notin peers') = Disposable(Cur, p)
                      /\ peer'[p].disposed = Disposable(Cur, p) ]_vars

\* The call found no broker for a peer that has an identity and disposed the
\* peer after it recorded the failure.
C30_Witness ==
  /\ last.op = "connectToWebRTC"
  /\ ~last.ret
  /\ last.conn = Null
  /\ last.peer \notin peers
  /\ peer[last.peer].disposed
  /\ peer[last.peer].identity # Null
  /\ peer[last.peer].failures[<<WebRtc, Outbound>>] = 1

\* C31: no peer's knownPeers contains the local identity, and no peer's
\* knownPeers contains the identity of that peer itself.
C31_KnownPeersWithoutSelf ==
  \A p \in peers :
    /\ peer[p].knownPeers[localIdentity] = Null
    /\ peer[p].identity # Null => peer[p].knownPeers[peer[p].identity] = Null

\* The frames that change knownPeers.
GraphKinds == {"peerList", "signalRequest", "signal"}

\* The identity of record x is a key of the knownPeers of record b.
Knows(b, x) == peer'[b].knownPeers[peer'[x].identity] # Null

\* C32: after every handled PeerList, SignalRequest or Signal message the
\* knownPeers edges between the peers of the list are symmetric.
C32_KnownPeersSymmetric ==
  [][ (last'.op = "message" /\ last'.msg.type \in GraphKinds)
        => \A b, x \in peers' :
             (peer'[b].identity # Null /\ peer'[x].identity # Null)
               => (Knows(b, x) <=> Knows(x, b)) ]_vars

\* The onKnownPeersChanged events of peer p among the events of the step.
KnownPeersChangedOf(p) ==
  {k \in DOMAIN emitted' :
     emitted'[k] = [event |-> "onKnownPeersChanged", peer |-> p]}

\* C33: handling one PeerList emits the sender's onKnownPeersChanged at most
\* once, and emits it if and only if the handling added an edge to or removed
\* an edge from some knownPeers map.
C33_KnownPeersChangedIffEdgeChanged ==
  [][ (last'.op = "message" /\ last'.msg.type = "peerList")
        => /\ Cardinality(KnownPeersChangedOf(last'.peer)) <= 1
           /\ (KnownPeersChangedOf(last'.peer) # {})
                <=> (\E q \in PeerIds :
                       peer'[q].knownPeers # Cur.peer[q].knownPeers) ]_vars

\* The PeerList added an edge from its sender to the peer record q, which
\* was in the peers list before.
EdgeAddedToKnownRecord(q) ==
  /\ last'.op = "message"
  /\ last'.msg.type = "peerList"
  /\ q \in Cur.peers
  /\ q # last'.peer
  /\ Cur.peer[q].identity \in DOMAIN last'.msg.connectedPeers
  /\ Cur.peer[last'.peer].knownPeers[Cur.peer[q].identity] = Null
  /\ peer'[last'.peer].knownPeers[Cur.peer[q].identity] = q

\* C34: when a PeerList adds an edge to a neighbour that is already a peer
\* record, the address of the record changes only to an address the list
\* provides: a null address in the list leaves the address as it was.
C34_AdvertisedAddressOnlyIfProvided ==
  [][ \A q \in PeerIds :
        EdgeAddedToKnownRecord(q)
          => peer'[q].address =
               IF last'.msg.connectedPeers[Cur.peer[q].identity] # Null
                 THEN last'.msg.connectedPeers[Cur.peer[q].identity]
                 ELSE Cur.peer[q].address ]_vars

NeverRetryDirect(S, p) == <<WebSocket, Outbound>> \in S.peer[p].neverRetry
\* C35: once the direct outbound retry state of a record is neverRetry it
\* stays so through every event, canConnect stays false, and a later
\* connectToWebSocket on that record returns false and opens no connection.
C35_NeverRetryIsSticky ==
  [][ \A p \in PeerIds : NeverRetryDirect(Cur, p)
        => /\ <<WebSocket, Outbound>> \in peer'[p].neverRetry
           /\ ~canConnect([Cur EXCEPT !.peer = peer', !.now = now'], p, <<WebSocket, Outbound>>)
           /\ (last'.op = "connectToWebSocket" /\ last'.peer = p)
                => /\ ~last'.ret
                   /\ conn' = Cur.conn
                   /\ peer'[p].ws = Cur.peer[p].ws ]_vars

\* A dial of a record that has an address, no connection and no cooldown
\* left is refused because its direct outbound retry state is neverRetry.
C35_Witness ==
  /\ last.op = "connectToWebSocket" /\ ~last.ret
  /\ last.peer \in peers
  /\ peer[last.peer].address # Null
  /\ <<WebSocket, Outbound>> \in peer[last.peer].neverRetry
  /\ peer[last.peer].state = "DISCONNECTED"
  /\ peer[last.peer].cooldownUntil[<<WebSocket, Outbound>>] <= now
  /\ (peer[last.peer].peerRequestedDisconnectUntil = NoTime
        \/ now >= peer[last.peer].peerRequestedDisconnectUntil)
  /\ Cardinality(getPeersWithConnection([peers |-> peers, peer |-> peer])) < targetPeers

\* A valid Identify with the identity of the peer arrives on the direct
\* connection of a peer that is CONNECTED through its assisted connection
\* only, and we asked for no disconnect.
IdentifyOnDirectOfAssistedPeer ==
  /\ last'.op = "message" /\ last'.msg \in ValidIdentifyMessages
  /\ Cur.conn[last'.conn].type = WebSocket
  /\ Cur.conn[last'.conn].state = "WAITING_FOR_IDENTITY"
  /\ Cur.peer[last'.peer].ws = last'.conn
  /\ Cur.peer[last'.peer].state = "CONNECTED"
  /\ Cur.peer[last'.peer].rtc # Null
  /\ Cur.conn[Cur.peer[last'.peer].rtc].state = "CONNECTED"
  /\ Cur.peer[last'.peer].identity = last'.msg.identity
  /\ ~LocalWindowOpen(Cur, last'.peer)

\* C36: that Identify closes no connection, makes the direct connection
\* CONNECTED and leaves the peer with both transports connected.
C36_DirectJoinsAssisted ==
  [][ IdentifyOnDirectOfAssistedPeer
        => /\ \A d \in ConnIds :
                Cur.conn[d].state # "DISCONNECTED" => conn'[d].state # "DISCONNECTED"
           /\ conn'[last'.conn].state = "CONNECTED"
           /\ peer'[last'.peer].ws = last'.conn
           /\ peer'[last'.peer].rtc = Cur.peer[last'.peer].rtc
           /\ conn'[Cur.peer[last'.peer].rtc].state = "CONNECTED" ]_vars

\* A Disconnecting frame addressed to us arrives from an identified peer
\* other than the registered peer its sourceIdentity names.
RelayedDisconnectToUs ==
  /\ last'.op = "message" /\ last'.msg.type = "disconnecting"
  /\ last'.msg.destinationIdentity = localIdentity
  /\ Cur.peer[last'.peer].identity # Null
  /\ last'.msg.sourceIdentity # Cur.peer[last'.peer].identity
  /\ Cur.identifiedPeers[last'.msg.sourceIdentity] # Null

\* C37: the disconnect window of that frame is recorded on the peer the
\* sourceIdentity names, and the relaying peer keeps its connections and
\* its own peerRequestedDisconnectUntil.
C37_RelayedDisconnectHitsSource ==
  [][ RelayedDisconnectToUs
        => LET x == Cur.identifiedPeers[last'.msg.sourceIdentity]
               b == last'.peer
           IN  /\ peer'[x].peerRequestedDisconnectUntil = last'.msg.disconnectUntil
               /\ peer'[b].ws = Cur.peer[b].ws
               /\ peer'[b].rtc = Cur.peer[b].rtc
               /\ \A d \in {Cur.peer[b].ws, Cur.peer[b].rtc} \ {Null} :
                    conn'[d].state = Cur.conn[d].state
               /\ peer'[b].peerRequestedDisconnectUntil =
                    Cur.peer[b].peerRequestedDisconnectUntil ]_vars

\* C38: no peer record in the peers list or registered in identifiedPeers
\* has the local identity.
C38_NoRecordForLocalIdentity ==
  /\ \A p \in peers : peer[p].identity # localIdentity
  /\ identifiedPeers[localIdentity] = Null
  /\ \A i \in Identities :
       identifiedPeers[i] # Null => peer[identifiedPeers[i]].identity # localIdentity

\* C39: a Signal frame received from one peer and naming another peer as
\* its source leaves a CONNECTED WebRTC connection of that other peer
\* CONNECTED, whether or not its payload can be decrypted and parsed.
C39_SignalSparesConnected ==
  [][ (last'.op = "message" /\ last'.msg.type = "signal")
        => \A x \in PeerIds :
             ( /\ x # last'.peer
               /\ Cur.peer[x].identity = last'.msg.sourceIdentity
               /\ Cur.peer[x].rtc # Null
               /\ Cur.conn[Cur.peer[x].rtc].state = "CONNECTED" )
             => /\ conn'[Cur.peer[x].rtc].state = "CONNECTED"
                /\ peer'[x].rtc = Cur.peer[x].rtc ]_vars

\* The onConnect and onDisconnect emissions of an event for peer record p,
\* in the order they were emitted.
ConnectEventsOf(p) ==
  SelectSeq(emitted', LAMBDA e : e.peer = p /\ e.event \in {"onConnect", "onDisconnect"})

\* C40: for every peer record onConnect and onDisconnect alternate, starting
\* with onConnect. A record is CONNECTED exactly when the last of the two
\* events emitted for it was onConnect, so within each event the emissions
\* for a record alternate, the first is onDisconnect exactly when the record
\* was CONNECTED before the event, and the last is onConnect exactly when it
\* is CONNECTED after it.
C40_ConnectDisconnectAlternate ==
  [][ \A p \in PeerIds :
        LET es == ConnectEventsOf(p)
        IN  /\ \A k \in 1..(Len(es) - 1) : es[k].event # es[k + 1].event
            /\ es # <<>> => (es[1].event = "onDisconnect" <=> Cur.peer[p].state = "CONNECTED")
            /\ es # <<>> => (es[Len(es)].event = "onConnect" <=> peer'[p].state = "CONNECTED")
            /\ es = <<>> => (Cur.peer[p].state = "CONNECTED" <=> peer'[p].state = "CONNECTED")
    ]_vars

====
